---- MODULE Spec2Model ----
(***************************************************************************)
(* A model of the AudioMoth-Utils library: split (splitter.js), expand     *)
(* (expander.js), downsample (downsampler.js) and sync (syncer.js).        *)
(*                                                                         *)
(* One run of one entry point is modelled at a time.  `op` names the entry *)
(* point, `pc` the position in its code, `inp` the arguments and the input *)
(* file, `loc` the local variables of the running function, `out` the      *)
(* files written so far and `res` the value returned.                      *)
(*                                                                         *)
(* Sizes are scaled so that the loops can be enumerated: the buffer and    *)
(* block sizes of the source (32 KiB, 512 bytes, 32 bits) are replaced by  *)
(* small values that keep their roles and their divisibility relations.    *)
(* JavaScript double arithmetic is modelled by exact rational arithmetic   *)
(* on integers.                                                            *)
(***************************************************************************)
EXTENDS Integers, Sequences, FiniteSets, TLC

VARIABLES op, pc, inp, loc, out, res

vars == <<op, pc, inp, loc, out, res>>

(***************************************************************************)
(* Arithmetic helpers (Math.min, Math.max, Math.abs, Math.floor, Math.ceil *)
(* and Math.round on rationals n / d with d > 0).                          *)
(***************************************************************************)
Min(a, b) == IF a < b THEN a ELSE b

Max(a, b) == IF a > b THEN a ELSE b

Abs(a) == IF a < 0 THEN -a ELSE a

Sign(a) == IF a < 0 THEN -1 ELSE IF a > 0 THEN 1 ELSE 0

\* Math.floor(n / d) for d > 0 (TLA+ \div already rounds towards minus infinity)
FloorDiv(n, d) == n \div d

\* Math.ceil(n / d) for d > 0
CeilDiv(n, d) == -((-n) \div d)

\* Math.round(n / d) for d > 0: the nearest integer, halves towards plus infinity
RoundDiv(n, d) == (2 * n + d) \div (2 * d)

RECURSIVE SumSeq(_)
SumSeq(s) == IF s = <<>> THEN 0 ELSE Head(s) + SumSeq(Tail(s))

RECURSIVE Flatten(_)
Flatten(ss) == IF ss = <<>> THEN <<>> ELSE Head(ss) \o Flatten(Tail(ss))

\* n copies of the value v
Repeat(v, n) == [k \in 1..n |-> v]

(***************************************************************************)
(* Files.  A file is a sequence of bytes.  fs.readSync(fd, buffer, 0, n,   *)
(* position) copies the bytes that exist at position .. position + n - 1   *)
(* into the start of the buffer and leaves the rest of the buffer alone.   *)
(***************************************************************************)
NUMBER_OF_BYTES_IN_SAMPLE == 2

MILLISECONDS_IN_SECONDS == 1000

SECONDS_IN_DAY == 86400

\* A value that may be null or undefined is a sequence: <<>> for null
Null == <<>>

\* Marker values for the bytes of the WAV header and of the GUANO chunk
HeaderByte == 256

GuanoByte == 257

FileBytes(headerSize, data, guanoSize) ==
    Repeat(HeaderByte, headerSize) \o data \o Repeat(GuanoByte, guanoSize)

ReadSync(file, buffer, n, position) ==
    LET got == IF position >= Len(file) THEN 0 ELSE Min(n, Len(file) - position)
    IN [k \in 1..Len(buffer) |-> IF k <= got THEN file[position + k] ELSE buffer[k]]

(***************************************************************************)
(* Text.  A file name is a sequence of characters.  Dates are those of the *)
(* JavaScript Date: milliseconds from 1 January 1970 UTC.                  *)
(***************************************************************************)
\* File names are sequences of characters.  substring(a, b) of JavaScript
Substring(text, a, b) == SubSeq(text, Min(a, Len(text)) + 1, Min(b, Len(text)))

DecimalDigits == <<"0", "1", "2", "3", "4", "5", "6", "7", "8", "9">>

HexLetters == {"A", "B", "C", "D", "E", "F"}

IsDigit(c) == \E k \in 1..10 : DecimalDigits[k] = c

DigitValue(c) == (CHOOSE k \in 1..10 : DecimalDigits[k] = c) - 1

AllDigits(text) == \A k \in 1..Len(text) : IsDigit(text[k])

RECURSIVE NumberOf(_)
NumberOf(text) ==
    IF text = <<>> THEN 0
    ELSE 10 * NumberOf(SubSeq(text, 1, Len(text) - 1)) + DigitValue(text[Len(text)])

WavExtension == <<".", "W", "A", "V">>

\* \d{8}_\d{6}
IsTimestring(text) ==
    /\ Len(text) = 15
    /\ AllDigits(SubSeq(text, 1, 8))
    /\ text[9] = "_"
    /\ AllDigits(SubSeq(text, 10, 15))

EndsWith(text, suffix) ==
    /\ Len(text) >= Len(suffix)
    /\ SubSeq(text, Len(text) - Len(suffix) + 1, Len(text)) = suffix

SyncPostfix == <<"_", "S", "Y", "N", "C">>

\* The decimal digits of a number that is not negative
RECURSIVE DecimalText(_)
DecimalText(value) ==
    IF value < 10 THEN <<DecimalDigits[value + 1]>>
    ELSE Append(DecimalText(value \div 10), DecimalDigits[(value % 10) + 1])

\* digits(value, number): the last `number` characters of '00000' + value
digits(value, number) ==
    LET string == <<"0", "0", "0", "0", "0">> \o DecimalText(value)
    IN Substring(string, Len(string) - number, Len(string))

MILLISECONDS_IN_DAY == 24 * 60 * 60 * MILLISECONDS_IN_SECONDS

\* The year, month and day of the calendar of a day counted from 1 January 1970
CivilFromDays(days) ==
    LET z == days + 719468
        era == z \div 146097
        dayOfEra == z - era * 146097
        yearOfEra == (dayOfEra - dayOfEra \div 1460 + dayOfEra \div 36524 - dayOfEra \div 146096) \div 365
        dayOfYear == dayOfEra - (365 * yearOfEra + yearOfEra \div 4 - yearOfEra \div 100)
        mp == (5 * dayOfYear + 2) \div 153
        month == IF mp < 10 THEN mp + 3 ELSE mp - 9
    IN [ year |-> yearOfEra + era * 400 + (IF month <= 2 THEN 1 ELSE 0),
         month |-> month,
         day |-> dayOfYear - (153 * mp + 2) \div 5 + 1 ]

\* The time string of new Date(timestamp): year, month, day, '_', hours,
\* minutes and seconds of the UTC time
Timestring(timestamp) ==
    LET date == CivilFromDays(timestamp \div MILLISECONDS_IN_DAY)
        seconds == (timestamp % MILLISECONDS_IN_DAY) \div MILLISECONDS_IN_SECONDS
    IN DecimalText(date.year) \o digits(date.month, 2) \o digits(date.day, 2) \o <<"_">>
           \o digits(seconds \div 3600, 2) \o digits((seconds \div 60) % 60, 2)
           \o digits(seconds % 60, 2)

(***************************************************************************)
(* split (splitter.js)                                                     *)
(***************************************************************************)

\* Model bounds of the split runs
MaxSplitDataSize == 10

MaxSplitRate == 2

MaxSplitDuration == 2

\* FILE_BUFFER_SIZE of splitter.js, scaled from 32 * 1024
SPLIT_FILE_BUFFER_SIZE == 3

SplitHeaderSize == 3

\* The data payload of a split input: n distinguishable bytes
SplitData(n, seed) == [k \in 1..n |-> (seed + 5 * k) % 256]

\* The maximumFileDuration argument of split and expand, in tenths of a
\* second: whole seconds, and undefined (null here), zero, a negative number
\* and numbers that are not integers
SplitDurationArguments ==
    { <<10 * d>> : d \in 1..MaxSplitDuration } \cup { Null, <<0>>, <<-10>>, <<5>>, <<15>> }

\* maximumFileDuration = maximumFileDuration || SECONDS_IN_DAY, in tenths of a
\* second: undefined and 0 are falsy
DurationOrDefault(argument) ==
    IF argument = Null \/ argument[1] = 0 THEN 10 * SECONDS_IN_DAY ELSE argument[1]

\* The failure of the checks of maximumFileDuration, or "none"
DurationFailure(tenths) ==
    IF tenths # 10 * RoundDiv(tenths, 10) THEN "Maximum file duration must be an integer."
    ELSE IF tenths <= 0 THEN "Maximum file duration must be greater than zero."
    ELSE "none"

\* formatFilename of splitter.js
formatFilename(timestamp) == Timestring(timestamp) \o WavExtension

\* FILENAME_REGEX of splitter.js, /^(\d{8}_)?\d{6}\.WAV$/
SplitFilenameMatches(filename) ==
    \/ /\ Len(filename) = 10
       /\ AllDigits(SubSeq(filename, 1, 6))
       /\ SubSeq(filename, 7, 10) = WavExtension
    \/ /\ Len(filename) = 19
       /\ IsTimestring(SubSeq(filename, 1, 15))
       /\ SubSeq(filename, 16, 19) = WavExtension

\* (prefix === '' ? '' : prefix + '_')
PrefixText(prefix) == IF prefix = <<>> THEN <<>> ELSE prefix \o <<"_">>

SplitPlainName == Timestring(0) \o WavExtension

\* The names of the input files: a date and a time, a time alone, and a date
\* and a time with the postfix of sync; and the prefix argument
SplitNamings ==
    { [ filename |-> f, prefix |-> p ] :
      f \in { SplitPlainName, SubSeq(Timestring(0), 10, 15) \o WavExtension,
              Timestring(0) \o SyncPostfix \o WavExtension },
      p \in { <<>>, <<"A">> } }

SplitPlainNaming == [ filename |-> SplitPlainName, prefix |-> <<>> ]

\* inp.argument is the maximumFileDuration that the caller passes and
\* inp.maximumFileDuration the variable after the default is applied, in
\* whole seconds
SplitInputs ==
    { [ dataSize |-> n, samplesPerSecond |-> r, argument |-> a,
        maximumFileDuration |-> DurationOrDefault(a) \div 10,
        originalTimestamp |-> t, seed |-> sd, guanoSize |-> g,
        filename |-> naming.filename, prefix |-> naming.prefix ] :
          n \in 0..MaxSplitDataSize, r \in 1..MaxSplitRate, a \in SplitDurationArguments,
          t \in {0, 7000}, sd \in {1, 130}, g \in {0, 2},
          naming \in SplitNamings }

SplitFile(i) == FileBytes(SplitHeaderSize, SplitData(i.dataSize, i.seed), i.guanoSize)

InitSplit ==
    /\ op = "split"
    /\ pc = "check"
    /\ inp \in SplitInputs
    /\ (inp.dataSize > 3 \/ inp.seed # 1 \/ inp.guanoSize # 0)
           => [ filename |-> inp.filename, prefix |-> inp.prefix ] = SplitPlainNaming
    /\ loc = [ outputFileList |-> <<>>,
               numberOfBytesProcessed |-> 0,
               timestamp |-> inp.originalTimestamp,
               i |-> 0,
               index |-> 0,
               fileBuffer |-> Repeat(0, SPLIT_FILE_BUFFER_SIZE),
               progress |-> 0,
               reported |-> <<>> ]
    /\ out = <<>>
    /\ res = "none"

\* split returns the failure of a check of maximumFileDuration
SplitRejectDuration ==
    /\ op = "split" /\ pc = "check" /\ res = "none"
    /\ DurationFailure(DurationOrDefault(inp.argument)) # "none"
    /\ res' = DurationFailure(DurationOrDefault(inp.argument))
    /\ UNCHANGED <<op, pc, inp, loc, out>>

\* split returns the failure of the check of the name of the input file
SplitRejectFilename ==
    /\ op = "split" /\ pc = "check" /\ res = "none"
    /\ DurationFailure(DurationOrDefault(inp.argument)) = "none"
    /\ ~SplitFilenameMatches(inp.filename)
    /\ res' = "File name is incorrect."
    /\ UNCHANGED <<op, pc, inp, loc, out>>

\* maximumFileDuration and the file name pass the checks: split goes on to
\* the input file
SplitAcceptDuration ==
    /\ op = "split" /\ pc = "check" /\ res = "none"
    /\ DurationFailure(DurationOrDefault(inp.argument)) = "none"
    /\ SplitFilenameMatches(inp.filename)
    /\ pc' = "plan"
    /\ UNCHANGED <<op, inp, loc, out, res>>

\* The timestamp of the next descriptor, counted in seconds
SplitNextTimestampInSeconds(timestamp, maximumFileDuration) == timestamp + maximumFileDuration

\* timestamp += maximumFileDuration * MILLISECONDS_IN_SECONDS after a descriptor
SplitNextTimestamp(timestamp, maximumFileDuration) ==
    timestamp + maximumFileDuration * MILLISECONDS_IN_SECONDS

\* One iteration of the loop that builds the output file list
SplitNumberOfBytesWrong(maximumFileDuration, samplesPerSecond, remaining) ==
    maximumFileDuration * samplesPerSecond * NUMBER_OF_BYTES_IN_SAMPLE

SplitNumberOfBytes(maximumFileDuration, samplesPerSecond, remaining) ==
    Min(maximumFileDuration * samplesPerSecond * NUMBER_OF_BYTES_IN_SAMPLE, remaining)

SplitPlanStep ==
    /\ op = "split" /\ pc = "plan"
    /\ loc.numberOfBytesProcessed < inp.dataSize
    /\ LET numberOfBytes == SplitNumberOfBytes(inp.maximumFileDuration, inp.samplesPerSecond,
                                               inp.dataSize - loc.numberOfBytesProcessed)
       IN loc' = [loc EXCEPT
                    !.outputFileList = Append(@, [ timestamp |-> loc.timestamp,
                                                   offset |-> loc.numberOfBytesProcessed,
                                                   length |-> numberOfBytes ]),
                    !.timestamp = SplitNextTimestamp(@, inp.maximumFileDuration),
                    !.numberOfBytesProcessed = @ + numberOfBytes]
    /\ UNCHANGED <<op, pc, inp, out, res>>

\* The single-file case of split: one descriptor that covers the whole payload
SplitSingleFile ==
    /\ Len(loc.outputFileList) = 1
    /\ loc.outputFileList[1].offset = 0
    /\ loc.outputFileList[1].length = inp.dataSize

\* The list is complete: go on to write the files
SplitPlanDone ==
    /\ op = "split" /\ pc = "plan"
    /\ ~(loc.numberOfBytesProcessed < inp.dataSize)
    /\ pc' = "open"
    /\ loc' = [loc EXCEPT !.i = 0]
    /\ UNCHANGED <<op, inp, out, res>>

\* The values that the loop over several output files passes to the progress
\* callback before it writes file i + 1: Math.round(i / length * 100) for i > 0
SplitLoopProgress(i, numberOfFiles, single) ==
    IF ~single /\ i > 0 THEN << RoundDiv(100 * i, numberOfFiles) >> ELSE <<>>

\* nextProgress of outputCallback when writeOutputFile reports that written
\* of length bytes of file i + 1 are copied: Math.round(100 * value) for the
\* single file, Math.round(100 * (i + value) / outputFileList.length) otherwise
SplitNextProgress(i, numberOfFiles, single, written, length) ==
    IF single THEN RoundDiv(100 * written, length)
    ELSE RoundDiv(100 * (i * length + written), numberOfFiles * length)

\* writeOutputFile, up to the header: the output file is created.  progress of
\* split is loc.progress; loc.reported lists the values that the progress
\* callback has received
SplitOpenFile ==
    /\ op = "split" /\ pc = "open"
    /\ loc.i < Len(loc.outputFileList)
    /\ LET d == loc.outputFileList[loc.i + 1]
           single == SplitSingleFile
       IN /\ out' = Append(out, [ timestamp |-> IF single THEN inp.originalTimestamp ELSE d.timestamp,
                                  filename |-> PrefixText(inp.prefix)
                                      \o formatFilename(IF single THEN inp.originalTimestamp
                                                        ELSE d.timestamp),
                                  comment |-> IF single THEN <<>> ELSE <<loc.i + 1, Len(loc.outputFileList)>>,
                                  dataSize |-> IF single THEN inp.dataSize ELSE d.length,
                                  data |-> <<>>,
                                  guano |-> FALSE,
                                  closed |-> FALSE ])
          /\ loc' = [loc EXCEPT !.index = IF single THEN 0 ELSE d.offset,
                                !.reported = @ \o SplitLoopProgress(loc.i, Len(loc.outputFileList), single)]
    /\ pc' = "copy"
    /\ UNCHANGED <<op, inp, res>>

\* writeOutputFile: one pass of the copy loop
SplitCopyStep ==
    /\ op = "split" /\ pc = "copy"
    /\ LET d == loc.outputFileList[loc.i + 1]
           numberOfBytes == Min(SPLIT_FILE_BUFFER_SIZE, d.offset + d.length - loc.index)
           buffer == ReadSync(SplitFile(inp), loc.fileBuffer, numberOfBytes, SplitHeaderSize + loc.index)
           nextProgress == SplitNextProgress(loc.i, Len(loc.outputFileList), SplitSingleFile,
                                             loc.index + numberOfBytes - d.offset, d.length)
       IN /\ loc.index < d.offset + d.length
          /\ loc' = [loc EXCEPT !.fileBuffer = buffer, !.index = @ + numberOfBytes,
                                !.progress = IF nextProgress > @ THEN nextProgress ELSE @,
                                !.reported = IF nextProgress > loc.progress
                                             THEN Append(@, nextProgress) ELSE @]
          /\ out' = [out EXCEPT ![Len(out)].data = @ \o SubSeq(buffer, 1, numberOfBytes)]
    /\ UNCHANGED <<op, pc, inp, res>>

\* writeOutputFile: the GUANO is appended and the file closed
SplitCloseFile ==
    /\ op = "split" /\ pc = "copy"
    /\ LET d == loc.outputFileList[loc.i + 1]
       IN ~(loc.index < d.offset + d.length)
    /\ out' = [out EXCEPT ![Len(out)].guano = (inp.guanoSize > 0), ![Len(out)].closed = TRUE]
    /\ loc' = [loc EXCEPT !.i = @ + 1]
    /\ pc' = "open"
    /\ UNCHANGED <<op, inp, res>>

\* All files are written: split returns success
SplitReturn ==
    /\ op = "split" /\ pc = "open"
    /\ ~(loc.i < Len(loc.outputFileList))
    /\ pc' = "done"
    /\ res' = "success"
    /\ loc' = [loc EXCEPT !.reported = IF loc.progress < 100 THEN Append(@, 100) ELSE @]
    /\ UNCHANGED <<op, inp, out>>

NextSplit ==
    \/ SplitRejectDuration
    \/ SplitRejectFilename
    \/ SplitAcceptDuration
    \/ SplitPlanStep
    \/ SplitPlanDone
    \/ SplitOpenFile
    \/ SplitCopyStep
    \/ SplitCloseFile
    \/ SplitReturn

SpecSplit == InitSplit /\ [][NextSplit]_vars

(***************************************************************************)
(* expand (expander.js)                                                    *)
(***************************************************************************)

\* ENCODED_BLOCK_SIZE_IN_BYTES of expander.js, scaled from 512
ENCODED_BLOCK_SIZE_IN_BYTES == 8

\* UINT32_SIZE_IN_BITS of expander.js, scaled from 32: the number of leading
\* samples of a block that encode the bits of the count
UINT32_SIZE_IN_BITS == 3

\* AUDIOMOTH_SEGMENT_SIZE of expander.js, scaled from 32 * 1024
AUDIOMOTH_SEGMENT_SIZE == 16

\* FILE_BUFFER_SIZE of expander.js, scaled from 32 * 1024
EXPAND_FILE_BUFFER_SIZE == 16

\* The two bytes of a 16-bit little-endian sample
SampleBytes(v) == << v % 256, (v % 65536) \div 256 >>

BytesOfSamples(samples) == Flatten([k \in 1..Len(samples) |-> SampleBytes(samples[k])])

\* buffer.readInt16LE(index): index counts bytes from 0
ReadInt16LE(buffer, index) ==
    LET value == buffer[index + 1] + 256 * buffer[index + 2]
    IN IF value > 32767 THEN value - 65536 ELSE value

RECURSIVE Pow2(_)
Pow2(n) == IF n = 0 THEN 1 ELSE 2 * Pow2(n - 1)

\* 1 << i on the signed integers of the shift operator, whose width is
\* UINT32_SIZE_IN_BITS: the top bit is the sign bit
ShiftLeftOne(i) == IF i = UINT32_SIZE_IN_BITS - 1 THEN -Pow2(i) ELSE Pow2(i)

\* isFullOfZeros(buffer, length)
IsFullOfZeros(buffer, length) ==
    \A i \in 0..(CeilDiv(length, NUMBER_OF_BYTES_IN_SAMPLE) - 1) :
        ReadInt16LE(buffer, NUMBER_OF_BYTES_IN_SAMPLE * i) = 0

\* readEncodedBlock(buffer): the first loop returns 0 at the first sample that
\* is neither 1 nor -1, and otherwise adds up the shifted bits
RECURSIVE ReadEncodedBits(_, _)
ReadEncodedBits(buffer, i) ==
    IF i = UINT32_SIZE_IN_BITS THEN 0
    ELSE (IF ReadInt16LE(buffer, NUMBER_OF_BYTES_IN_SAMPLE * i) = 1 THEN ShiftLeftOne(i) ELSE 0)
         + ReadEncodedBits(buffer, i + 1)

ReadEncodedBlock(buffer) ==
    IF \E i \in 0..(UINT32_SIZE_IN_BITS - 1) :
          ReadInt16LE(buffer, NUMBER_OF_BYTES_IN_SAMPLE * i) \notin {1, -1}
    THEN 0
    ELSE IF \E i \in UINT32_SIZE_IN_BITS..(ENCODED_BLOCK_SIZE_IN_BYTES \div NUMBER_OF_BYTES_IN_SAMPLE - 1) :
               ReadInt16LE(buffer, NUMBER_OF_BYTES_IN_SAMPLE * i) # 0
    THEN 0
    ELSE ReadEncodedBits(buffer, 0)

\* A window of zeros is silent wherever it lies in the file
ZeroWindowIsSilentAnywhere(firstSegment, lastSegment, fullOfZeros) == fullOfZeros

\* (firstSegment || lastSegment) && isFullOfZeros(fileBuffer, ...)
ZeroWindowIsSilent(firstSegment, lastSegment, fullOfZeros) ==
    (firstSegment \/ lastSegment) /\ fullOfZeros

\* The classification of one window of numberOfBytes bytes held in the buffer
ClassifyWindow(buffer, numberOfBytes, firstSegment, lastSegment) ==
    IF numberOfBytes < ENCODED_BLOCK_SIZE_IN_BYTES
    THEN [ type |-> IF ZeroWindowIsSilent(firstSegment, lastSegment,
                                          IsFullOfZeros(buffer, numberOfBytes))
                    THEN "SILENT" ELSE "AUDIO",
           inputBytes |-> numberOfBytes,
           outputBytes |-> numberOfBytes ]
    ELSE LET numberOfBlocks == ReadEncodedBlock(buffer)
         IN IF numberOfBlocks > 0
            THEN [ type |-> "SILENT",
                   inputBytes |-> ENCODED_BLOCK_SIZE_IN_BYTES,
                   outputBytes |-> numberOfBlocks * ENCODED_BLOCK_SIZE_IN_BYTES ]
            ELSE [ type |-> IF ZeroWindowIsSilent(firstSegment, lastSegment,
                                                  IsFullOfZeros(buffer, ENCODED_BLOCK_SIZE_IN_BYTES))
                            THEN "SILENT" ELSE "AUDIO",
                   inputBytes |-> ENCODED_BLOCK_SIZE_IN_BYTES,
                   outputBytes |-> ENCODED_BLOCK_SIZE_IN_BYTES ]

(***************************************************************************)
(* The block decoder on its own: any block of samples, classified as the   *)
(* segmentation loop of expand classifies a full window.                   *)
(***************************************************************************)
DecodeSampleValues == {-1, 0, 1, 2}

SamplesInBlock == ENCODED_BLOCK_SIZE_IN_BYTES \div NUMBER_OF_BYTES_IN_SAMPLE

DecodeInputs ==
    [ samples : [1..SamplesInBlock -> DecodeSampleValues],
      firstSegment : BOOLEAN,
      lastSegment : BOOLEAN ]

InitDecode ==
    /\ op = "decode"
    /\ pc = "block"
    /\ inp \in DecodeInputs
    /\ loc = [ fileBuffer |-> Repeat(0, EXPAND_FILE_BUFFER_SIZE) ]
    /\ out = <<>>
    /\ res = "none"

\* The window is read into the file buffer, decoded and classified
DecodeBlock ==
    /\ op = "decode" /\ pc = "block"
    /\ LET buffer == ReadSync(BytesOfSamples(inp.samples), loc.fileBuffer, ENCODED_BLOCK_SIZE_IN_BYTES, 0)
       IN loc' = [ fileBuffer |-> buffer,
                   numberOfBlocks |-> ReadEncodedBlock(buffer),
                   segment |-> ClassifyWindow(buffer, ENCODED_BLOCK_SIZE_IN_BYTES,
                                              inp.firstSegment, inp.lastSegment) ]
    /\ pc' = "done"
    /\ UNCHANGED <<op, inp, out, res>>

NextDecode == DecodeBlock

SpecDecode == InitDecode /\ [][NextDecode]_vars

(***************************************************************************)
(* expand: inputs                                                          *)
(***************************************************************************)
\* Model bounds of the expand runs
MaxExpandWindows == 4

\* Full windows of the input: two silent-run sentinels (counts 1 and 2), a
\* block of zeros and a block of audio
ExpandPalette ==
    { <<1, -1, -1, 0>>, <<-1, 1, -1, 0>>, <<0, 0, 0, 0>>, <<5, -3, 2, 7>> }

\* Short windows: one sample, zero or not
ExpandShort == { <<0>>, <<6>> }

RECURSIVE SeqsUpTo(_, _)
SeqsUpTo(S, n) ==
    IF n = 0 THEN { <<>> }
    ELSE LET shorter == SeqsUpTo(S, n - 1)
         IN shorter \cup { Append(q, x) : q \in { r \in shorter : Len(r) = n - 1 }, x \in S }

ExpandHeaderSizes == { ENCODED_BLOCK_SIZE_IN_BYTES, ENCODED_BLOCK_SIZE_IN_BYTES - 2 }

ExpandRates == {7}

ExpandDurations == {1, 2, SECONDS_IN_DAY}

\* The arguments of expand and what the header of the input file says.
\* generateSilentFiles is read by DURATION only, alignToSecondTransitions by
\* EVENT only, and with a file duration of one day every slice is written
ExpandArguments ==
    { a \in [ samplesPerSecond : ExpandRates,
              expansionType : {"DURATION", "EVENT"},
              maximumFileDuration : ExpandDurations,
              generateSilentFiles : BOOLEAN,
              alignToSecondTransitions : BOOLEAN ] :
        /\ a.expansionType = "DURATION" => ~a.alignToSecondTransitions
        /\ a.expansionType = "EVENT" => ~a.generateSilentFiles /\ a.maximumFileDuration # SECONDS_IN_DAY
        /\ a.maximumFileDuration = SECONDS_IN_DAY => ~a.generateSilentFiles }

\* The data payload of the input file: a short leading window when the header
\* is not aligned, full windows and a short trailing window
ExpandLeads(h) == IF h % ENCODED_BLOCK_SIZE_IN_BYTES = 0 THEN { <<>> } ELSE ExpandShort

ExpandPayloads ==
    UNION { { [ headerSize |-> h,
                data |-> BytesOfSamples(lead \o Flatten(windows) \o tail) ] :
                lead \in ExpandLeads(h),
                windows \in SeqsUpTo(ExpandPalette, MaxExpandWindows),
                tail \in { <<>> } \cup ExpandShort } :
            h \in ExpandHeaderSizes }

ExpandInputs ==
    { [ headerSize |-> f.headerSize,
        data |-> f.data,
        samplesPerSecond |-> a.samplesPerSecond,
        expansionType |-> a.expansionType,
        maximumFileDuration |-> a.maximumFileDuration,
        generateSilentFiles |-> a.generateSilentFiles,
        alignToSecondTransitions |-> a.alignToSecondTransitions,
        originalTimestamp |-> 0,
        guanoSize |-> 0 ] :
        f \in ExpandPayloads,
        a \in ExpandArguments }

ExpandData(i) == i.data

ExpandFile(i) == FileBytes(i.headerSize, ExpandData(i), i.guanoSize)

\* header.data.size
ExpandDataSize(i) == Len(ExpandData(i))

InitExpand ==
    /\ op = "expand"
    /\ pc = "align"
    /\ inp \in ExpandInputs
    /\ loc = [ fileSummary |-> <<>>,
               inputFileBytesRead |-> 0,
               totalOutputBytes |-> 0,
               outputFileList |-> <<>>,
               numberOfBytesProcessed |-> 0,
               timestamp |-> inp.originalTimestamp,
               i |-> 0,
               file |-> 0,
               index |-> 0,
               fileBuffer |-> Repeat(0, EXPAND_FILE_BUFFER_SIZE) ]
    /\ out = <<>>
    /\ res = "none"

(***************************************************************************)
(* expand: segmentation of the input into the file summary                 *)
(***************************************************************************)

\* The first read, which brings the following reads onto block boundaries
ExpandAlignRead ==
    /\ op = "expand" /\ pc = "align"
    /\ IF inp.headerSize % ENCODED_BLOCK_SIZE_IN_BYTES # 0
       THEN LET numberOfBytes == Min(ExpandDataSize(inp),
                                     ENCODED_BLOCK_SIZE_IN_BYTES - (inp.headerSize % ENCODED_BLOCK_SIZE_IN_BYTES))
                buffer == ReadSync(ExpandFile(inp), loc.fileBuffer, numberOfBytes, inp.headerSize)
            IN loc' = [loc EXCEPT
                         !.fileBuffer = buffer,
                         !.inputFileBytesRead = @ + numberOfBytes,
                         !.fileSummary = Append(@, [ type |-> IF IsFullOfZeros(buffer, numberOfBytes)
                                                              THEN "SILENT" ELSE "AUDIO",
                                                     inputBytes |-> numberOfBytes,
                                                     outputBytes |-> numberOfBytes ])]
       ELSE UNCHANGED loc
    /\ pc' = "segment"
    /\ UNCHANGED <<op, inp, out, res>>

\* The summary after a window of the given classification: a new segment when
\* the type changes, and otherwise the last segment grows
AddToSummaryNoMerge(fileSummary, segment) == Append(fileSummary, segment)

AddToSummary(fileSummary, segment) ==
    IF Len(fileSummary) = 0 \/ segment.type # fileSummary[Len(fileSummary)].type
    THEN Append(fileSummary, segment)
    ELSE [fileSummary EXCEPT ![Len(fileSummary)].inputBytes = @ + segment.inputBytes,
                             ![Len(fileSummary)].outputBytes = @ + segment.outputBytes]

\* One pass of the loop over the windows of the input
ExpandSegmentStep ==
    /\ op = "expand" /\ pc = "segment"
    /\ loc.inputFileBytesRead < ExpandDataSize(inp)
    /\ LET firstSegment == loc.inputFileBytesRead + inp.headerSize < AUDIOMOTH_SEGMENT_SIZE
           lastSegment == ExpandDataSize(inp) - loc.inputFileBytesRead < AUDIOMOTH_SEGMENT_SIZE
           numberOfBytes == Min(ExpandDataSize(inp) - loc.inputFileBytesRead, ENCODED_BLOCK_SIZE_IN_BYTES)
           buffer == ReadSync(ExpandFile(inp), loc.fileBuffer, numberOfBytes,
                              loc.inputFileBytesRead + inp.headerSize)
           segment == ClassifyWindow(buffer, numberOfBytes, firstSegment, lastSegment)
       IN loc' = [loc EXCEPT
                    !.fileBuffer = buffer,
                    !.inputFileBytesRead = @ + numberOfBytes,
                    !.fileSummary = AddToSummary(@, segment)]
    /\ UNCHANGED <<op, pc, inp, out, res>>

\* The offsets of the segments: the running totals of inputBytes and outputBytes
RECURSIVE WithOffsets(_, _, _)
WithOffsets(fileSummary, totalInputBytes, totalOutputBytes) ==
    IF fileSummary = <<>> THEN <<>>
    ELSE LET s == Head(fileSummary)
         IN << [ type |-> s.type, inputBytes |-> s.inputBytes, outputBytes |-> s.outputBytes,
                 inputOffset |-> totalInputBytes, outputOffset |-> totalOutputBytes ] >>
            \o WithOffsets(Tail(fileSummary), totalInputBytes + s.inputBytes,
                           totalOutputBytes + s.outputBytes)

\* The input is exhausted: the totals are counted and the offsets set
ExpandTotals ==
    /\ op = "expand" /\ pc = "segment"
    /\ ~(loc.inputFileBytesRead < ExpandDataSize(inp))
    /\ loc' = [loc EXCEPT
                 !.fileSummary = WithOffsets(@, 0, 0),
                 !.totalOutputBytes = SumSeq([k \in 1..Len(loc.fileSummary) |-> loc.fileSummary[k].outputBytes]),
                 !.i = 0,
                 !.numberOfBytesProcessed = 0]
    /\ pc' = IF inp.expansionType = "DURATION" THEN "duration" ELSE "event"
    /\ UNCHANGED <<op, inp, out, res>>

(***************************************************************************)
(* expand: the list of output files                                        *)
(***************************************************************************)
ExpandBytesPerSecond == inp.samplesPerSecond * NUMBER_OF_BYTES_IN_SAMPLE

SegmentEnd(s) == s.outputOffset + s.outputBytes

\* A slice becomes a file only for its audio or for generateSilentFiles
DurationFileWantedForContent(hasAudio, generateSilentFiles, maximumFileDuration) ==
    hasAudio \/ generateSilentFiles

\* hasAudio || generateSilentFiles || maximumFileDuration === SECONDS_IN_DAY
DurationFileWanted(hasAudio, generateSilentFiles, maximumFileDuration) ==
    hasAudio \/ generateSilentFiles \/ maximumFileDuration = SECONDS_IN_DAY

\* DURATION: one pass of the loop over the slices of the output timeline
ExpandDurationStep ==
    /\ op = "expand" /\ pc = "duration"
    /\ loc.numberOfBytesProcessed < loc.totalOutputBytes
    /\ LET numberOfBytes == Min(inp.maximumFileDuration * ExpandBytesPerSecond,
                                loc.totalOutputBytes - loc.numberOfBytesProcessed)
           hasAudio == \E k \in 1..Len(loc.fileSummary) :
                          /\ loc.fileSummary[k].type = "AUDIO"
                          /\ loc.numberOfBytesProcessed <= SegmentEnd(loc.fileSummary[k]) - 1
                          /\ loc.numberOfBytesProcessed + numberOfBytes - 1 >= loc.fileSummary[k].outputOffset
       IN loc' = [loc EXCEPT
                    !.outputFileList =
                        IF DurationFileWanted(hasAudio, inp.generateSilentFiles, inp.maximumFileDuration)
                        THEN Append(@, [ timestamp |-> loc.timestamp,
                                         milliseconds |-> FALSE,
                                         offset |-> loc.numberOfBytesProcessed,
                                         length |-> numberOfBytes ])
                        ELSE @,
                    !.timestamp = @ + inp.maximumFileDuration * MILLISECONDS_IN_SECONDS,
                    !.numberOfBytesProcessed = @ + numberOfBytes]
    /\ UNCHANGED <<op, pc, inp, out, res>>

\* EVENT with alignToSecondTransitions: the roll forward from segment j (counted
\* from 0) over the AUDIO segments that start within the second that begins at
\* numberOfBytesProcessed; the result is the new value of i
RECURSIVE RollForward(_, _, _, _, _)
RollForward(fileSummary, j, i, numberOfBytesProcessed, bytesPerSecond) ==
    IF j < Len(fileSummary) - 1
    THEN IF fileSummary[j + 2].type = "AUDIO"
         THEN IF fileSummary[j + 2].outputOffset < numberOfBytesProcessed + bytesPerSecond
              THEN RollForward(fileSummary, j + 1, j + 1, numberOfBytesProcessed, bytesPerSecond)
              ELSE i
         ELSE RollForward(fileSummary, j + 1, i, numberOfBytesProcessed, bytesPerSecond)
    ELSE i

\* EVENT: where the next file starts, given the position reached
EventStart(numberOfBytesProcessed, bytesPerSecond, alignToSecondTransitions) ==
    IF alignToSecondTransitions
    THEN numberOfBytesProcessed - (numberOfBytesProcessed % bytesPerSecond)
    ELSE numberOfBytesProcessed

\* EVENT: one pass of the loop over the segments
ExpandEventStep ==
    /\ op = "expand" /\ pc = "event"
    /\ loc.i < Len(loc.fileSummary)
    /\ loc.numberOfBytesProcessed < loc.totalOutputBytes
    /\ IF loc.fileSummary[loc.i + 1].type = "SILENT"
       THEN loc' = [loc EXCEPT !.numberOfBytesProcessed = SegmentEnd(loc.fileSummary[loc.i + 1]),
                               !.i = @ + 1]
       ELSE LET start == EventStart(loc.numberOfBytesProcessed, ExpandBytesPerSecond,
                                    inp.alignToSecondTransitions)
                i == IF inp.alignToSecondTransitions
                     THEN RollForward(loc.fileSummary, loc.i, loc.i, start, ExpandBytesPerSecond)
                     ELSE loc.i
                numberOfBytes == Min(inp.maximumFileDuration * ExpandBytesPerSecond,
                                     SegmentEnd(loc.fileSummary[i + 1]) - start)
                timeOffset == RoundDiv(start * MILLISECONDS_IN_SECONDS, ExpandBytesPerSecond)
            IN loc' = [loc EXCEPT
                         !.outputFileList = Append(@, [ timestamp |-> inp.originalTimestamp + timeOffset,
                                                        milliseconds |-> ~inp.alignToSecondTransitions,
                                                        offset |-> start,
                                                        length |-> numberOfBytes ]),
                         !.numberOfBytesProcessed = start + numberOfBytes,
                         !.i = IF start + numberOfBytes = SegmentEnd(loc.fileSummary[i + 1])
                               THEN i + 1 ELSE i]
    /\ UNCHANGED <<op, pc, inp, out, res>>

\* The list is complete: go on to write the files
ExpandPlanDone ==
    /\ op = "expand"
    /\ \/ pc = "duration" /\ ~(loc.numberOfBytesProcessed < loc.totalOutputBytes)
       \/ pc = "event" /\ ~(loc.i < Len(loc.fileSummary)
                            /\ loc.numberOfBytesProcessed < loc.totalOutputBytes)
    /\ pc' = "open"
    /\ loc' = [loc EXCEPT !.file = 0]
    /\ UNCHANGED <<op, inp, out, res>>

(***************************************************************************)
(* expand: writing the output files                                        *)
(***************************************************************************)
ExpandSingleFile ==
    /\ Len(loc.outputFileList) = 1
    /\ loc.outputFileList[1].offset = 0
    /\ loc.outputFileList[1].length = loc.totalOutputBytes

\* The bytes written for a stretch of an AUDIO or SILENT segment
WrittenBytes(segment, buffer, numberOfBytes) ==
    IF segment.type = "AUDIO" THEN SubSeq(buffer, 1, numberOfBytes) ELSE Repeat(0, numberOfBytes)

\* Where in the input file the bytes of an AUDIO segment at output position index are
AudioReadPositionNoOffset(headerSize, index, segment) == headerSize + index

AudioReadPosition(headerSize, index, segment) ==
    headerSize + index - segment.outputOffset + segment.inputOffset

\* writeOutputFile: the write loop, from the state w = [i, index, fileBuffer,
\* data] on; the result is the state in which the loop ends
RECURSIVE WriteLoop(_, _, _, _, _)
WriteLoop(file, headerSize, fileSummary, d, w) ==
    IF w.i < Len(fileSummary) /\ w.index < d.offset + d.length
    THEN LET s == fileSummary[w.i + 1]
         IN IF SegmentEnd(s) - 1 < w.index
            THEN WriteLoop(file, headerSize, fileSummary, d, [w EXCEPT !.i = @ + 1])
            ELSE LET numberOfBytes == Min(Min(EXPAND_FILE_BUFFER_SIZE, SegmentEnd(s) - w.index),
                                          d.offset + d.length - w.index)
                     buffer == IF s.type = "AUDIO"
                               THEN ReadSync(file, w.fileBuffer, numberOfBytes,
                                             AudioReadPosition(headerSize, w.index, s))
                               ELSE w.fileBuffer
                 IN WriteLoop(file, headerSize, fileSummary, d,
                              [ i |-> IF w.index + numberOfBytes = SegmentEnd(s) THEN w.i + 1 ELSE w.i,
                                index |-> w.index + numberOfBytes,
                                fileBuffer |-> buffer,
                                data |-> w.data \o WrittenBytes(s, buffer, numberOfBytes),
                                steps |-> w.steps + 1 ])
    ELSE w

\* writeOutputFile for the next file of the list: the file is created, the
\* header and the data are written, the GUANO appended and the file closed
ExpandWriteFile ==
    /\ op = "expand" /\ pc = "open"
    /\ loc.file < Len(loc.outputFileList)
    /\ LET d == loc.outputFileList[loc.file + 1]
           single == ExpandSingleFile
           w == WriteLoop(ExpandFile(inp), inp.headerSize, loc.fileSummary, d,
                          [ i |-> 0, index |-> d.offset, fileBuffer |-> loc.fileBuffer,
                            data |-> <<>>, steps |-> 0 ])
       IN /\ out' = Append(out, [ timestamp |-> IF single THEN inp.originalTimestamp ELSE d.timestamp,
                                  milliseconds |-> IF single THEN FALSE ELSE d.milliseconds,
                                  comment |-> IF single THEN <<>> ELSE <<loc.file + 1, Len(loc.outputFileList)>>,
                                  dataSize |-> d.length,
                                  data |-> w.data,
                                  steps |-> w.steps,
                                  guano |-> (inp.guanoSize > 0) ])
          /\ loc' = [loc EXCEPT !.fileBuffer = w.fileBuffer, !.file = @ + 1]
    /\ UNCHANGED <<op, pc, inp, res>>

\* All files are written: expand returns success
ExpandReturn ==
    /\ op = "expand" /\ pc = "open"
    /\ ~(loc.file < Len(loc.outputFileList))
    /\ pc' = "done"
    /\ res' = "success"
    /\ UNCHANGED <<op, inp, loc, out>>

NextExpand ==
    \/ ExpandAlignRead
    \/ ExpandSegmentStep
    \/ ExpandTotals
    \/ ExpandDurationStep
    \/ ExpandEventStep
    \/ ExpandPlanDone
    \/ ExpandWriteFile
    \/ ExpandReturn

SpecExpand == InitExpand /\ [][NextExpand]_vars

(***************************************************************************)
(* Claims about split                                                      *)
(***************************************************************************)
SplitFullLength == inp.maximumFileDuration * inp.samplesPerSecond * NUMBER_OF_BYTES_IN_SAMPLE

SplitOutputData == Flatten([k \in 1..Len(out) |-> out[k].data])

\* C1: the chunk descriptors built by split start at offset 0, are contiguous
\* (each offset is the previous offset plus the previous length), every chunk
\* but the last has length maximumFileDuration x sampleRate x 2, the last is
\* non-empty and no longer than that, the lengths sum to data.size, and the
\* data regions written for the chunks, concatenated in order, are the input
\* data payload byte for byte.
C1_SplitChunksCoverPayload ==
    op = "split" =>
        LET list == loc.outputFileList
        IN /\ \A k \in 1..Len(list) :
                /\ list[k].offset = IF k = 1 THEN 0 ELSE list[k - 1].offset + list[k - 1].length
                /\ list[k].length > 0
                /\ list[k].length <= SplitFullLength
                /\ k < Len(list) => list[k].length = SplitFullLength
           /\ pc \notin {"check", "plan"} =>
                  SumSeq([k \in 1..Len(list) |-> list[k].length]) = inp.dataSize
           /\ res = "success" =>
                /\ Len(out) = Len(list)
                /\ \A k \in 1..Len(out) : Len(out[k].data) = list[k].length
                /\ SplitOutputData = SplitData(inp.dataSize, inp.seed)

\* A finished split of three or more chunks whose last chunk is short and whose
\* chunks are larger than the copy buffer
C1_Witness ==
    /\ op = "split" /\ res = "success"
    /\ Len(loc.outputFileList) >= 3
    /\ loc.outputFileList[Len(loc.outputFileList)].length < SplitFullLength
    /\ SplitFullLength > SPLIT_FILE_BUFFER_SIZE

(***************************************************************************)
(* Claims about expand                                                     *)
(***************************************************************************)

\* The segment of the file summary that holds position p of the output timeline
SegmentAt(fileSummary, p) ==
    CHOOSE k \in 1..Len(fileSummary) :
        fileSummary[k].outputOffset <= p /\ p < SegmentEnd(fileSummary[k])

\* What the output timeline holds at position p: the input byte for an AUDIO
\* segment, zero for a SILENT segment
TimelineByte(fileSummary, data, p) ==
    LET s == fileSummary[SegmentAt(fileSummary, p)]
    IN IF s.type = "AUDIO" THEN data[s.inputOffset + (p - s.outputOffset) + 1] ELSE 0

\* C2: for every output file descriptor (offset, length) of expand,
\* writeOutputFile writes exactly length data bytes, and the byte at timeline
\* position p is the input data byte at s.inputOffset + (p - s.outputOffset)
\* when p lies in an AUDIO segment s and zero when p lies in a SILENT segment.
C2_ExpandWritesTimeline ==
    op = "expand" =>
        \A k \in 1..Len(out) :
            LET d == loc.outputFileList[k]
            IN /\ Len(out[k].data) = d.length
               /\ \A p \in d.offset..(d.offset + d.length - 1) :
                    out[k].data[p - d.offset + 1] = TimelineByte(loc.fileSummary, inp.data, p)

\* A file that took three or more writes, starts inside a SILENT segment and
\* reaches an AUDIO segment whose place in the input differs from its place in
\* the output
C2_Witness ==
    /\ op = "expand" /\ Len(out) >= 1
    /\ LET d == loc.outputFileList[Len(out)]
           first == loc.fileSummary[SegmentAt(loc.fileSummary, d.offset)]
           last == loc.fileSummary[SegmentAt(loc.fileSummary, d.offset + d.length - 1)]
       IN /\ out[Len(out)].steps >= 3
          /\ first.type = "SILENT"
          /\ last.type = "AUDIO"
          /\ last.inputOffset # last.outputOffset
          /\ \E p \in 1..Len(out[Len(out)].data) : out[Len(out)].data[p] # 0

\* C3 (as claimed): the planned output file descriptors of expand satisfy
\* offset + length <= totalOutputBytes, are sorted by offset, and do not overlap
\* (each offset is at least the previous offset plus the previous length).
C3_DescriptorsDisjoint ==
    op = "expand" /\ pc \in {"duration", "event", "open", "done"} =>
        LET list == loc.outputFileList
        IN /\ \A k \in 1..Len(list) : list[k].offset + list[k].length <= loc.totalOutputBytes
           /\ \A k \in 2..Len(list) : list[k].offset >= list[k - 1].offset
           /\ \A k \in 2..Len(list) : list[k].offset >= list[k - 1].offset + list[k - 1].length

\* C4: after segmentation no two adjacent segments of the file summary have the
\* same type, the inputBytes of the segments sum to data.size, and the
\* inputOffset and outputOffset of each segment are the sums of the inputBytes
\* and outputBytes of the segments before it.
C4_SummaryMaximal ==
    op = "expand" =>
        LET fs == loc.fileSummary
        IN /\ \A k \in 2..Len(fs) : fs[k].type # fs[k - 1].type
           /\ SumSeq([k \in 1..Len(fs) |-> fs[k].inputBytes]) = loc.inputFileBytesRead
           /\ pc \notin {"align", "segment"} =>
                /\ SumSeq([k \in 1..Len(fs) |-> fs[k].inputBytes]) = Len(inp.data)
                /\ \A k \in 1..Len(fs) :
                     /\ fs[k].inputOffset = SumSeq([j \in 1..(k - 1) |-> fs[j].inputBytes])
                     /\ fs[k].outputOffset = SumSeq([j \in 1..(k - 1) |-> fs[j].outputBytes])

\* A summary of three or more segments, made from an unaligned header, in which
\* windows were merged and a silent run was expanded
C4_Witness ==
    /\ op = "expand" /\ pc \notin {"align", "segment"}
    /\ inp.headerSize % ENCODED_BLOCK_SIZE_IN_BYTES # 0
    /\ Len(loc.fileSummary) >= 3
    /\ \E k \in 1..Len(loc.fileSummary) :
         /\ loc.fileSummary[k].type = "AUDIO"
         /\ loc.fileSummary[k].inputBytes > ENCODED_BLOCK_SIZE_IN_BYTES
    /\ \E k \in 1..Len(loc.fileSummary) :
         /\ loc.fileSummary[k].type = "SILENT"
         /\ loc.fileSummary[k].outputBytes > loc.fileSummary[k].inputBytes

\* The count a sentinel block encodes: bit i is set exactly when sample i is +1
RECURSIVE EncodedCount(_, _)
EncodedCount(samples, i) ==
    IF i = UINT32_SIZE_IN_BITS THEN 0
    ELSE (IF samples[i + 1] = 1 THEN Pow2(i) ELSE 0) + EncodedCount(samples, i + 1)

IsSentinelShape(samples) ==
    /\ \A i \in 1..UINT32_SIZE_IN_BITS : samples[i] \in {1, -1}
    /\ \A i \in (UINT32_SIZE_IN_BITS + 1)..Len(samples) : samples[i] = 0

\* C5 (as claimed): for a block whose first UINT32_SIZE_IN_BITS samples are
\* each +1 or -1 and whose other samples are zero, the decoder returns the
\* unsigned count whose bit i is set exactly when sample i is +1, and that
\* count is the number of silent blocks emitted for the block; for every other
\* block the decoder returns 0 (not a sentinel).
C5_DecoderReturnsUnsignedCount ==
    op = "decode" /\ pc = "done" =>
        IF IsSentinelShape(inp.samples)
        THEN /\ loc.numberOfBlocks = EncodedCount(inp.samples, 0)
             /\ loc.numberOfBlocks > 0 =>
                  /\ loc.segment.type = "SILENT"
                  /\ loc.segment.outputBytes = loc.numberOfBlocks * ENCODED_BLOCK_SIZE_IN_BYTES
        ELSE loc.numberOfBlocks = 0

(***************************************************************************)
(* downsample (downsampler.js)                                             *)
(*                                                                         *)
(* The doubles `position` and `total` are kept as exact rationals: `step`  *)
(* is the reduced fraction stepNumerator / stepDenominator, `position` and *)
(* `total` are numerators over stepDenominator.                            *)
(***************************************************************************)
INT16_MIN == -32768

INT16_MAX == 32767

HERTZ_IN_KILOHERTZ == 1000

validSampleRates == <<8000, 16000, 32000, 48000, 96000, 192000, 250000, 384000>>

\* FILE_BUFFER_SIZE of downsampler.js (32 KiB in the source), in bytes
DOWNSAMPLE_FILE_BUFFER_SIZE == 4

DownsampleHeaderSize == 3

\* Model bounds of the downsample runs
MaxDownsampleSamples == 5

LongDownsampleSamples == 200

\* The longest short recording that is also tried with a GUANO chunk
MaxGuanoSamples == 3

RECURSIVE greatestCommonDivider(_, _)
greatestCommonDivider(a, b) == IF a = 0 THEN b ELSE greatestCommonDivider(b % a, a)

\* readInt16(buffer, index): index counts bytes from 0
readInt16(buffer, index) ==
    LET value == buffer[index + 1] + 256 * buffer[index + 2]
    IN IF value > 32767 THEN value - 65536 ELSE value

\* writeInt16(buffer, index, value): value & 0xFF and (value >> 8) & 0xFF
writeInt16(buffer, index, value) ==
    [buffer EXCEPT ![index + 1] = value % 256, ![index + 2] = (value \div 256) % 256]

DownsamplePalette == <<-32768, -1, 2>>

DownsampleLongPalette == <<-32768, -1, 2, 32767>>

DownsampleShortSamples ==
    UNION { [1..n -> {DownsamplePalette[k] : k \in 1..Len(DownsamplePalette)}] :
            n \in 0..MaxDownsampleSamples }

\* One long recording, so that every pair of rates produces output
DownsampleLongSamples ==
    [i \in 1..LongDownsampleSamples |-> DownsampleLongPalette[(((i \div 3) + i) % 4) + 1]]

\* The data chunk that holds the samples, two bytes each
DownsampleData(samples) ==
    [k \in 1..(NUMBER_OF_BYTES_IN_SAMPLE * Len(samples)) |->
        SampleBytes(samples[(k + 1) \div 2])[((k - 1) % 2) + 1]]

Letters ==
    { "A", "B", "C", "D", "E", "F", "G", "H", "I", "J", "K", "L", "M",
      "N", "O", "P", "Q", "R", "S", "T", "U", "V", "W", "X", "Y", "Z",
      "a", "b", "c", "d", "e", "f", "g", "h", "i", "j", "k", "l", "m",
      "n", "o", "p", "q", "r", "s", "t", "u", "v", "w", "x", "y", "z" }

\* [A-Za-z-_0-9]+_
IsNamePrefix(text) ==
    /\ Len(text) >= 2
    /\ \A k \in 1..Len(text) : IsDigit(text[k]) \/ text[k] \in Letters \cup {"-", "_"}
    /\ text[Len(text)] = "_"

\* (_\d{3})|(_SYNC)
IsDownsamplePostfix(text) ==
    \/ text = SyncPostfix
    \/ Len(text) = 4 /\ text[1] = "_" /\ AllDigits(SubSeq(text, 2, 4))

\* regexes[DOWNSAMPLE], /^([A-Za-z-_0-9]+_)?(\d{8}_\d{6})((_\d{3})|(_SYNC))?\.WAV$/
DownsampleFilenameMatches(filename) ==
    /\ EndsWith(filename, WavExtension)
    /\ \E postfixLength \in {0, 4, 5} :
           LET end == Len(filename) - Len(WavExtension) - postfixLength
           IN /\ end >= 15
              /\ postfixLength > 0 => IsDownsamplePostfix(SubSeq(filename, end + 1, end + postfixLength))
              /\ IsTimestring(SubSeq(filename, end - 14, end))
              /\ end > 15 => IsNamePrefix(SubSeq(filename, 1, end - 15))

\* The names of the input files: a date and a time, the same after sync, after
\* expand and after a device name, and a time alone; and the prefix argument
DownsampleNamings ==
    { [ filename |-> f, prefix |-> p ] :
      f \in { Timestring(0) \o WavExtension,
              Timestring(0) \o SyncPostfix \o WavExtension,
              Timestring(0) \o <<"_", "0", "0", "1">> \o WavExtension,
              <<"a", "-", "1", "_">> \o Timestring(0) \o SyncPostfix \o WavExtension,
              SubSeq(Timestring(0), 10, 15) \o WavExtension },
      p \in { <<>>, <<"A">> } }

DownsamplePlainNaming == [ filename |-> Timestring(0) \o WavExtension, prefix |-> <<>> ]

DownsampleRequestedRates == {validSampleRates[k] : k \in 1..Len(validSampleRates)} \cup {24000}

DownsampleInputs ==
    { [ originalSampleRate |-> o, requestedSampleRate |-> r, samples |-> s,
        data |-> DownsampleData(s), headerSize |-> DownsampleHeaderSize, guanoSize |-> g,
        filename |-> DownsamplePlainNaming.filename, prefix |-> DownsamplePlainNaming.prefix ] :
      o \in {validSampleRates[k] : k \in 1..Len(validSampleRates)},
      r \in DownsampleRequestedRates,
      s \in DownsampleShortSamples \cup {DownsampleLongSamples},
      g \in {0, 2} }

DownsampleFile(i) == FileBytes(i.headerSize, i.data, i.guanoSize)

InitDownsample ==
    /\ op = "downsample"
    /\ pc = "check"
    /\ \E i \in DownsampleInputs, naming \in DownsampleNamings :
           /\ (Len(i.samples) > 0 \/ i.guanoSize # 0) => naming = DownsamplePlainNaming
           /\ (Len(i.samples) > MaxGuanoSamples /\ i.samples # DownsampleLongSamples) => i.guanoSize = 0
           /\ inp = [ i EXCEPT !.filename = naming.filename, !.prefix = naming.prefix ]
    /\ loc = [ inputBuffer |-> Repeat(0, DOWNSAMPLE_FILE_BUFFER_SIZE),
               outputBuffer |-> Repeat(0, DOWNSAMPLE_FILE_BUFFER_SIZE) ]
    /\ out = <<>>
    /\ res = "none"

RequestedSampleRateCheck(requestedSampleRate) ==
    \E i \in 1..Len(validSampleRates) : requestedSampleRate = validSampleRates[i]

DownsampleRejectRate ==
    /\ op = "downsample" /\ pc = "check"
    /\ ~RequestedSampleRateCheck(inp.requestedSampleRate)
    /\ pc' = "done"
    /\ res' = "Requested sample rate is not valid."
    /\ UNCHANGED <<op, inp, loc, out>>

\* downsample returns the failure of checkFilenameAgainstHeader
DownsampleRejectFilename ==
    /\ op = "downsample" /\ pc = "check"
    /\ RequestedSampleRateCheck(inp.requestedSampleRate)
    /\ ~DownsampleFilenameMatches(inp.filename)
    /\ pc' = "done"
    /\ res' = "File name is not valid."
    /\ UNCHANGED <<op, inp, loc, out>>

DownsampleRejectGreater ==
    /\ op = "downsample" /\ pc = "check"
    /\ RequestedSampleRateCheck(inp.requestedSampleRate)
    /\ DownsampleFilenameMatches(inp.filename)
    /\ inp.requestedSampleRate > inp.originalSampleRate
    /\ pc' = "done"
    /\ res' = "Requested sample rate is greater than original sample rate."
    /\ UNCHANGED <<op, inp, loc, out>>

SampleRateDivider(originalSampleRate, requestedSampleRate) ==
    CeilDiv(originalSampleRate, requestedSampleRate)

RawSampleRate(originalSampleRate, requestedSampleRate) ==
    SampleRateDivider(originalSampleRate, requestedSampleRate) * requestedSampleRate

DownsampleDivider(originalSampleRate, requestedSampleRate) ==
    (originalSampleRate \div HERTZ_IN_KILOHERTZ) \div
    greatestCommonDivider(originalSampleRate \div HERTZ_IN_KILOHERTZ,
                          requestedSampleRate \div HERTZ_IN_KILOHERTZ)

DownsampleMultiplier(originalSampleRate, requestedSampleRate) ==
    (requestedSampleRate \div HERTZ_IN_KILOHERTZ) \div
    greatestCommonDivider(originalSampleRate \div HERTZ_IN_KILOHERTZ,
                          requestedSampleRate \div HERTZ_IN_KILOHERTZ)

\* Math.floor(numberOfSamplesInInput * multiplier / divider)
NumberOfSamplesToWriteScaledFirst(dataSize, divider, multiplier) ==
    FloorDiv(dataSize * multiplier, NUMBER_OF_BYTES_IN_SAMPLE * divider)

\* Math.floor(numberOfSamplesInInput / divider) * multiplier, with
\* numberOfSamplesInInput = dataSize / NUMBER_OF_BYTES_IN_SAMPLE
NumberOfSamplesToWrite(dataSize, divider, multiplier) ==
    FloorDiv(dataSize, NUMBER_OF_BYTES_IN_SAMPLE * divider) * multiplier

\* Opens the output file, writes its header and reads the first input sample
DownsampleOpen ==
    /\ op = "downsample" /\ pc = "check"
    /\ RequestedSampleRateCheck(inp.requestedSampleRate)
    /\ DownsampleFilenameMatches(inp.filename)
    /\ ~(inp.requestedSampleRate > inp.originalSampleRate)
    /\ LET sampleRateDivider == SampleRateDivider(inp.originalSampleRate, inp.requestedSampleRate)
           rawSampleRate == RawSampleRate(inp.originalSampleRate, inp.requestedSampleRate)
           g == greatestCommonDivider(inp.originalSampleRate, rawSampleRate)
           divider == DownsampleDivider(inp.originalSampleRate, inp.requestedSampleRate)
           multiplier == DownsampleMultiplier(inp.originalSampleRate, inp.requestedSampleRate)
           numberOfSamplesToWrite == NumberOfSamplesToWrite(Len(inp.data), divider, multiplier)
           inputBuffer == ReadSync(DownsampleFile(inp), loc.inputBuffer,
                                   DOWNSAMPLE_FILE_BUFFER_SIZE, inp.headerSize)
       IN /\ loc' = [ inputBuffer |-> IF numberOfSamplesToWrite > 0 THEN inputBuffer
                                      ELSE loc.inputBuffer,
                      outputBuffer |-> loc.outputBuffer,
                      sampleRateDivider |-> sampleRateDivider,
                      stepNumerator |-> inp.originalSampleRate \div g,
                      stepDenominator |-> rawSampleRate \div g,
                      numberOfSamplesToWrite |-> numberOfSamplesToWrite,
                      filePosition |-> inp.headerSize + DOWNSAMPLE_FILE_BUFFER_SIZE,
                      count |-> 0,
                      total |-> 0,
                      position |-> 0,
                      numberOfSamplesWritten |-> 0,
                      samples |-> <<>>,
                      nextSample |-> readInt16(inputBuffer, 0),
                      numberOfSamplesRead |-> 1 ]
          /\ out' = << [ filename |-> PrefixText(inp.prefix) \o inp.filename,
                         sampleRate |-> inp.requestedSampleRate,
                         dataSize |-> numberOfSamplesToWrite * NUMBER_OF_BYTES_IN_SAMPLE,
                         data |-> <<>>,
                         guano |-> FALSE ] >>
          /\ pc' = IF numberOfSamplesToWrite > 0 THEN "loop" ELSE "guano"
    /\ UNCHANGED <<op, inp, res>>

\* value = Math.round(total / sampleRateDivider): halves towards plus infinity
DownsampleRoundHalfUp(total, d) == RoundDiv(total, d)

\* value = Math.sign(value) * Math.round(Math.abs(value)) for value = total / d
DownsampleRound(total, d) == Sign(total) * RoundDiv(Abs(total), d)

\* The inner loop: interpolates between currentSample and nextSample until a
\* new input sample is required.  w = [position, total, count,
\* numberOfSamplesWritten, outputBuffer, data, samples], where samples are the
\* values handed to writeInt16 so far
RECURSIVE Interpolate(_, _, _)
Interpolate(currentSample, nextSample, w) ==
    IF ~(w.position < loc.stepDenominator /\ w.numberOfSamplesWritten < loc.numberOfSamplesToWrite)
    THEN w
    ELSE LET interpolatedSample ==
                 currentSample * loc.stepDenominator + w.position * (nextSample - currentSample)
             total == w.total + interpolatedSample
             count == w.count + 1
             rounded == DownsampleRound(total, loc.stepDenominator * loc.sampleRateDivider)
             value == Max(INT16_MIN, Min(INT16_MAX, rounded))
             numberOfSamplesInBuffer ==
                 w.numberOfSamplesWritten % (DOWNSAMPLE_FILE_BUFFER_SIZE \div NUMBER_OF_BYTES_IN_SAMPLE)
             index == numberOfSamplesInBuffer * NUMBER_OF_BYTES_IN_SAMPLE
             outputBuffer == writeInt16(w.outputBuffer, index, value)
         IN IF count = loc.sampleRateDivider
            THEN Interpolate(currentSample, nextSample,
                     [ position |-> w.position + loc.stepNumerator,
                       total |-> 0,
                       count |-> 0,
                       numberOfSamplesWritten |-> w.numberOfSamplesWritten + 1,
                       samples |-> Append(w.samples, value),
                       outputBuffer |-> outputBuffer,
                       data |-> IF index = DOWNSAMPLE_FILE_BUFFER_SIZE - NUMBER_OF_BYTES_IN_SAMPLE
                                THEN w.data \o outputBuffer ELSE w.data ])
            ELSE Interpolate(currentSample, nextSample,
                     [ w EXCEPT !.position = w.position + loc.stepNumerator,
                                !.total = total,
                                !.count = count ])

\* One iteration of the main loop
DownsampleStep ==
    /\ op = "downsample" /\ pc = "loop"
    /\ loc.numberOfSamplesWritten < loc.numberOfSamplesToWrite
    /\ LET currentSample == loc.nextSample
           numberOfSamplesInBuffer ==
               loc.numberOfSamplesRead % (DOWNSAMPLE_FILE_BUFFER_SIZE \div NUMBER_OF_BYTES_IN_SAMPLE)
           refill == numberOfSamplesInBuffer = 0
           inputBuffer == IF refill
                          THEN ReadSync(DownsampleFile(inp), loc.inputBuffer,
                                        DOWNSAMPLE_FILE_BUFFER_SIZE, loc.filePosition)
                          ELSE loc.inputBuffer
           nextSample == IF loc.numberOfSamplesRead * NUMBER_OF_BYTES_IN_SAMPLE < Len(inp.data)
                         THEN readInt16(inputBuffer, numberOfSamplesInBuffer * NUMBER_OF_BYTES_IN_SAMPLE)
                         ELSE loc.nextSample
           w == Interpolate(currentSample, nextSample,
                    [ position |-> loc.position,
                      total |-> loc.total,
                      count |-> loc.count,
                      numberOfSamplesWritten |-> loc.numberOfSamplesWritten,
                      outputBuffer |-> loc.outputBuffer,
                      samples |-> loc.samples,
                      data |-> out[1].data ])
       IN /\ loc' = [ loc EXCEPT !.inputBuffer = inputBuffer,
                                 !.filePosition = IF refill
                                                  THEN Min(Max(Len(DownsampleFile(inp)), loc.filePosition),
                                                           loc.filePosition + DOWNSAMPLE_FILE_BUFFER_SIZE)
                                                  ELSE loc.filePosition,
                                 !.nextSample = nextSample,
                                 !.numberOfSamplesRead = loc.numberOfSamplesRead + 1,
                                 !.position = w.position - loc.stepDenominator,
                                 !.total = w.total,
                                 !.count = w.count,
                                 !.numberOfSamplesWritten = w.numberOfSamplesWritten,
                                 !.samples = w.samples,
                                 !.outputBuffer = w.outputBuffer ]
          /\ out' = [ out EXCEPT ![1].data = w.data ]
    /\ UNCHANGED <<op, pc, inp, res>>

\* The whole buffer when no sample is left in it
FinalWriteLengthOfFullBuffer(numberOfSamplesInBuffer) ==
    IF numberOfSamplesInBuffer > 0 THEN numberOfSamplesInBuffer * NUMBER_OF_BYTES_IN_SAMPLE
    ELSE DOWNSAMPLE_FILE_BUFFER_SIZE

\* if (numberOfSamplesInBuffer > 0) fs.writeSync(fo, outputBuffer, 0,
\* numberOfSamplesInBuffer * NUMBER_OF_BYTES_IN_SAMPLE, null)
FinalWriteLength(numberOfSamplesInBuffer) ==
    IF numberOfSamplesInBuffer > 0 THEN numberOfSamplesInBuffer * NUMBER_OF_BYTES_IN_SAMPLE
    ELSE 0

\* The write of the partly filled output buffer after the main loop
DownsampleFlush ==
    /\ op = "downsample" /\ pc = "loop"
    /\ ~(loc.numberOfSamplesWritten < loc.numberOfSamplesToWrite)
    /\ LET numberOfSamplesInBuffer ==
               loc.numberOfSamplesWritten % (DOWNSAMPLE_FILE_BUFFER_SIZE \div NUMBER_OF_BYTES_IN_SAMPLE)
       IN out' = [ out EXCEPT ![1].data =
                     @ \o SubSeq(loc.outputBuffer, 1, FinalWriteLength(numberOfSamplesInBuffer)) ]
    /\ pc' = "guano"
    /\ UNCHANGED <<op, inp, loc, res>>

\* Copies the GUANO chunk, if the input has one, and returns
DownsampleReturn ==
    /\ op = "downsample" /\ pc = "guano"
    /\ out' = [ out EXCEPT ![1].guano = (inp.guanoSize > 0) ]
    /\ pc' = "done"
    /\ res' = "success"
    /\ UNCHANGED <<op, inp, loc>>

NextDownsample ==
    \/ DownsampleRejectRate
    \/ DownsampleRejectFilename
    \/ DownsampleRejectGreater
    \/ DownsampleOpen
    \/ DownsampleStep
    \/ DownsampleFlush
    \/ DownsampleReturn

SpecDownsample == InitDownsample /\ [][NextDownsample]_vars

(***************************************************************************)
(* Claims about downsample                                                 *)
(***************************************************************************)
DownsampleSucceeded == op = "downsample" /\ pc = "done" /\ res = "success"

\* The samples of the data written to the output file
DownsampleOutputCount == Len(out[1].data) \div NUMBER_OF_BYTES_IN_SAMPLE

DownsampleOutputSample(j) == readInt16(out[1].data, NUMBER_OF_BYTES_IN_SAMPLE * j)

\* sum / k rounded to the nearest integer, halves away from zero
MeanHalfAwayFromZero(sum, k) ==
    LET q == Abs(sum) \div k
        r == Abs(sum) % k
    IN Sign(sum) * (IF 2 * r >= k THEN q + 1 ELSE q)

Clamp16(v) == IF v < -32768 THEN -32768 ELSE IF v > 32767 THEN 32767 ELSE v

\* C6: when the source rate is k times the requested rate, downsample writes
\* exactly floor(samplesIn / k) samples, output sample j is the mean of input
\* samples j*k .. j*k + k - 1 rounded half away from zero and clamped to
\* the 16-bit range, and for k = 1 the output data equals the input data.
C6_IntegerRatioAverages ==
    (DownsampleSucceeded /\ inp.originalSampleRate % inp.requestedSampleRate = 0) =>
        LET k == inp.originalSampleRate \div inp.requestedSampleRate
            samplesIn == Len(inp.samples)
        IN /\ Len(out[1].data) = NUMBER_OF_BYTES_IN_SAMPLE * (samplesIn \div k)
           /\ \A j \in 0..((samplesIn \div k) - 1) :
                  DownsampleOutputSample(j) =
                      Clamp16(MeanHalfAwayFromZero(
                          SumSeq(SubSeq(inp.samples, j * k + 1, j * k + k)), k))
           /\ (k = 1 => out[1].data = inp.data)

\* A run at ratio 2 that writes two samples, the first one the tie -16384.5
C6_Witness ==
    /\ DownsampleSucceeded
    /\ inp.originalSampleRate = 2 * inp.requestedSampleRate
    /\ Len(inp.samples) = 5
    /\ inp.samples[1] + inp.samples[2] = -32769
    /\ DownsampleOutputCount = 2
    /\ DownsampleOutputSample(0) = -16385

\* The greatest common divisor of two positive integers
CommonDivisors(a, b) == {d \in 1..Min(a, b) : a % d = 0 /\ b % d = 0}

GreatestCommonDivisor(a, b) ==
    CHOOSE d \in CommonDivisors(a, b) : \A e \in CommonDivisors(a, b) : e <= d

RatioDivider(i) ==
    (i.originalSampleRate \div 1000) \div
    GreatestCommonDivisor(i.originalSampleRate \div 1000, i.requestedSampleRate \div 1000)

RatioMultiplier(i) ==
    (i.requestedSampleRate \div 1000) \div
    GreatestCommonDivisor(i.originalSampleRate \div 1000, i.requestedSampleRate \div 1000)

\* C7 as stated: for recognised rates with requestedSampleRate <= sourceRate
\* the number of samples written is
\* floor(inputSamples * (requestedSampleRate/1000/gcd) / (sourceRate/1000/gcd)).
C7_CountScaledThenFloored ==
    DownsampleSucceeded =>
        DownsampleOutputCount = (Len(inp.samples) * RatioMultiplier(inp)) \div RatioDivider(inp)

\* C7 as the code has it: the number of samples written is
\* floor(inputSamples / (sourceRate/1000/gcd)) * (requestedSampleRate/1000/gcd),
\* whole groups of input samples only.
C7_CountFlooredThenScaled ==
    DownsampleSucceeded =>
        /\ DownsampleOutputCount = (Len(inp.samples) \div RatioDivider(inp)) * RatioMultiplier(inp)
        /\ out[1].dataSize = Len(out[1].data)

\* 48 kHz to 32 kHz with five input samples: one whole group of three, two
\* samples written
C7_Witness ==
    /\ DownsampleSucceeded
    /\ inp.originalSampleRate = 48000 /\ inp.requestedSampleRate = 32000
    /\ Len(inp.samples) = 5
    /\ DownsampleOutputCount = 2

(***************************************************************************)
(* sync (syncer.js)                                                        *)
(*                                                                         *)
(* The second is shortened: the clock runs at SYNC_CLOCK_FREQUENCY ticks   *)
(* per second and the sample rates are scaled with it, so that the number  *)
(* of clock ticks between samples and the ticks to complete a sample are   *)
(* those of the source at 96 kHz and 192 kHz.  Sample gaps are kept in     *)
(* clock ticks (the source keeps them in microseconds) and an interval's   *)
(* sample rate is the exact fraction rateNumerator / rateDenominator.      *)
(* The values of the samples are not tracked: the engine is modelled by    *)
(* its read and write cursors, its buffers' indices and the bytes it       *)
(* writes.                                                                 *)
(***************************************************************************)
FIX_PPS_EVENTS == TRUE

ALIGN_SAMPLES == TRUE

\* UINT32_MAX (0xFFFFFFFF in the source), in bytes
SYNC_UINT32_MAX == 100

\* FILE_BUFFER_SIZE of syncer.js (1 MiB in the source), in bytes
SYNC_FILE_BUFFER_SIZE == 8

\* HERTZ_IN_KILOHERTZ (1000 in the source): the unit of the scaled rates
SYNC_HERTZ_IN_KILOHERTZ == 1

MILLISECONDS_IN_SECOND == 1000

\* MAX_HFXO_ERROR_ABSOLUTE, MAX_HFXO_ERROR_RELATIVE and MAX_LFXO_ERROR, in
\* parts per million
MAX_HFXO_ERROR_ABSOLUTE == 100

MAX_HFXO_ERROR_RELATIVE == 40

MAX_LFXO_ERROR == 100

PartsPerMillion == 1000000

CLOCK_DIVIDER == 4

CONVERSION_CYCLES == 12

ACQUISITION_CYCLES == 16

\* CLOCK_FREQUENCY (48 MHz in the source), in ticks per second
SYNC_CLOCK_FREQUENCY == 2000

\* MAXIMUM_ALLOWABLE_SAMPLE_RATE (192 kHz) and MAXIMUM_REFERENCE_SAMPLE_RATE
\* (384 kHz), scaled with the clock
MAXIMUM_ALLOWABLE_SAMPLE_RATE == 8

MAXIMUM_REFERENCE_SAMPLE_RATE == 16

NUMBER_OF_BUFFERS == 8

PPS_CLOCK_TICK_OFFSET == 2 + CLOCK_DIVIDER

\* MAXIMUM_ALLOWABLE_PPS_OFFSET, in clock ticks
MAXIMUM_ALLOWABLE_PPS_OFFSET == PPS_CLOCK_TICK_OFFSET

MAXIMUM_ALLOWABLE_TIMESTAMP_DIFFERENCE == 500

SyncHeaderSize == 3

\* Model bounds of the sync runs: the rows of the CSV after the first one
MaxSyncRows == 3

SyncSampleRates == {4, 8}

SyncResampleRates == {2, 8, 12}

\* The numbers of samples in the input file
SyncSampleCounts == {5, 30}

\* The size of the GUANO chunk of an input file that has one
SyncGuanoSize == SYNC_FILE_BUFFER_SIZE

\* 2 ** Math.floor(Math.log2(MAXIMUM_REFERENCE_SAMPLE_RATE / sampleRate))
RECURSIVE OverSampleRate(_)
OverSampleRate(sampleRate) ==
    IF 2 * sampleRate > MAXIMUM_REFERENCE_SAMPLE_RATE THEN 1
    ELSE 2 * OverSampleRate(2 * sampleRate)

ClockTicksBetweenSamples(sampleRate) == SYNC_CLOCK_FREQUENCY \div sampleRate

ClockTicksToCompleteSample(sampleRate) ==
    2 + CLOCK_DIVIDER * (2 + OverSampleRate(sampleRate) * (ACQUISITION_CYCLES + CONVERSION_CYCLES))

\* The sample interval, in clock ticks
SampleInterval(sampleRate) == SYNC_CLOCK_FREQUENCY \div sampleRate

\* TIME_TO_NEXT_SAMPLE of a row, in clock ticks
TimeToNextSample(sampleRate, timerCount) ==
    IF timerCount <= ClockTicksToCompleteSample(sampleRate)
    THEN ClockTicksToCompleteSample(sampleRate) - timerCount
    ELSE ClockTicksBetweenSamples(sampleRate) + ClockTicksToCompleteSample(sampleRate) - timerCount

\* The steps from one CSV row to the next: seconds elapsed, the offset of the
\* row's AUDIOMOTH_TIME from the whole second in milliseconds, samples
\* counted and the row's TIMER_COUNT
SyncRowSteps(sampleRate) ==
    { [seconds |-> 1, jitter |-> 0, samples |-> sampleRate, timerCount |-> 0],
      [seconds |-> 1, jitter |-> 1, samples |-> sampleRate + 1, timerCount |-> 0],
      [seconds |-> 1, jitter |-> 0, samples |-> sampleRate - 1,
       timerCount |-> ClockTicksToCompleteSample(sampleRate) + 3],
      [seconds |-> 1, jitter |-> 0, samples |-> sampleRate,
       timerCount |-> ClockTicksToCompleteSample(sampleRate) - 10],
      [seconds |-> 2, jitter |-> 0, samples |-> 2 * sampleRate, timerCount |-> 0],
      [seconds |-> 1, jitter |-> 2, samples |-> sampleRate, timerCount |-> 0] }

\* The columns of the CSV built from the first row and the steps after it
SyncRows(first, steps) ==
    <<>> \o [ k \in 1..(Len(steps) + 1) |->
        IF k = 1 THEN first
        ELSE [ AUDIOMOTH_TIME |-> first.AUDIOMOTH_TIME + steps[k - 1].jitter
                   + MILLISECONDS_IN_SECOND * SumSeq([m \in 1..(k - 1) |-> steps[m].seconds]),
               TOTAL_SAMPLES |-> first.TOTAL_SAMPLES
                   + SumSeq([m \in 1..(k - 1) |-> steps[m].samples]),
               TIMER_COUNT |-> steps[k - 1].timerCount,
               BUFFERS_FILLED |-> first.BUFFERS_FILLED + (k - 1),
               BUFFERS_WRITTEN |-> first.BUFFERS_WRITTEN + (k - 1) ] ]

\* The first row: its time in milliseconds after the time of the header and the
\* buffers filled but not yet written
SyncFirstRows(sampleRate) ==
    { [ AUDIOMOTH_TIME |-> e[1], TOTAL_SAMPLES |-> 0, TIMER_COUNT |-> t,
        BUFFERS_FILLED |-> e[2], BUFFERS_WRITTEN |-> 0 ] :
      e \in {<<0, 0>>, <<501, 0>>, <<0, NUMBER_OF_BUFFERS>>},
      t \in {0, ClockTicksToCompleteSample(sampleRate) - 10} }

SyncResampleChoices ==
    {[given |-> FALSE, rate |-> 0]} \cup {[given |-> TRUE, rate |-> r] : r \in SyncResampleRates}

\* [0-9A-F]{16}_
IsDevicePrefix(text) ==
    /\ Len(text) = 17
    /\ \A k \in 1..16 : IsDigit(text[k]) \/ text[k] \in HexLetters
    /\ text[17] = "_"

\* The groups 1 and 2 of regexes[SYNC], /^([0-9A-F]{16}_)?(\d{8}_\d{6})\.WAV$/,
\* or Null when the file name does not match
SyncFilenameMatch(filename) ==
    IF /\ Len(filename) = 19
       /\ IsTimestring(SubSeq(filename, 1, 15))
       /\ SubSeq(filename, 16, 19) = WavExtension
    THEN <<[prefix |-> <<>>, timestring |-> SubSeq(filename, 1, 15)]>>
    ELSE IF /\ Len(filename) = 36
            /\ IsDevicePrefix(SubSeq(filename, 1, 17))
            /\ IsTimestring(SubSeq(filename, 18, 32))
            /\ SubSeq(filename, 33, 36) = WavExtension
    THEN <<[prefix |-> SubSeq(filename, 1, 17), timestring |-> SubSeq(filename, 18, 32)]>>
    ELSE Null

FilenameOkay == "okay"

\* checkFilenameAgainstHeader(SYNC, filename, comment, deviceID): the error
\* returned, or FilenameOkay.  commentTimestring is the time of the comment
\* field of the header written as a time string, deviceID the artist field
\* after 'AudioMoth '.
checkFilenameAgainstHeader(filename, commentTimestring, deviceID) ==
    LET matches == SyncFilenameMatch(filename)
    IN  IF matches = Null THEN "File name is not valid."
        ELSE IF /\ matches[1].prefix # <<>>
                /\ SubSeq(matches[1].prefix, 1, 16) # deviceID
        THEN "Device ID in the input WAV file header does not match the file name."
        ELSE IF commentTimestring # matches[1].timestring
        THEN "Timestamp in the input WAV file header does not match the file name."
        ELSE FilenameOkay

\* The days from 1 January 1970 to a day of the calendar
DaysFromCivil(year, month, day) ==
    LET y == IF month <= 2 THEN year - 1 ELSE year
        era == y \div 400
        yearOfEra == y - era * 400
        dayOfYear == (153 * (IF month > 2 THEN month - 3 ELSE month + 9) + 2) \div 5 + day - 1
        dayOfEra == yearOfEra * 365 + yearOfEra \div 4 - yearOfEra \div 100 + dayOfYear
    IN  era * 146097 + dayOfEra - 719468

\* Date.parse of year-month-dayThour:minute:second.000Z: the day and the
\* milliseconds in the day, or Null (NaN) when a field is not a number of its
\* range
DateParse(year, month, day, hour, minute, second) ==
    IF /\ Len(year) = 4 /\ Len(month) = 2 /\ Len(day) = 2
       /\ Len(hour) = 2 /\ Len(minute) = 2 /\ Len(second) = 2
       /\ AllDigits(year \o month \o day \o hour \o minute \o second)
       /\ NumberOf(month) \in 1..12
       /\ NumberOf(day) \in 1..31
       /\ NumberOf(hour) \in 0..23
       /\ NumberOf(minute) \in 0..59
       /\ NumberOf(second) \in 0..59
    THEN << [ days |-> DaysFromCivil(NumberOf(year), NumberOf(month), NumberOf(day)),
              milliseconds |-> ((NumberOf(hour) * 60 + NumberOf(minute)) * 60 + NumberOf(second))
                                   * MILLISECONDS_IN_SECOND ] >>
    ELSE Null

\* The time written in a time string
TimestringDate(text) ==
    DateParse(Substring(text, 0, 4), Substring(text, 4, 6), Substring(text, 6, 8),
              Substring(text, 9, 11), Substring(text, 11, 13), Substring(text, 13, 15))

\* The time string is looked for where the file name matched it
FileTimestampOfMatch(filename) ==
    TimestringDate(SyncFilenameMatch(filename)[1].timestring)

\* fileTimestamp: the time string is read at the start of the file name
FileTimestamp(filename) == TimestringDate(filename)

\* Math.abs(fileTimestamp - firstTimestamp) > MAXIMUM_ALLOWABLE_TIMESTAMP_DIFFERENCE
\* for a first row `offset` milliseconds after the time of the header; false
\* when fileTimestamp is NaN
DifferenceTooLarge(fileTimestamp, headerTimestamp, offset) ==
    /\ fileTimestamp # Null
    /\ LET days == fileTimestamp[1].days - headerTimestamp[1].days
       IN  \/ Abs(days) >= 2
           \/ /\ Abs(days) < 2
              /\ Abs(days * MILLISECONDS_IN_DAY + fileTimestamp[1].milliseconds
                     - headerTimestamp[1].milliseconds - offset)
                     > MAXIMUM_ALLOWABLE_TIMESTAMP_DIFFERENCE

SyncTimestring == <<"2", "0", "2", "3", "0", "1", "0", "5", "_", "1", "2", "0", "0", "0", "0">>

SyncOtherTimestring == <<"2", "0", "2", "3", "0", "1", "0", "5", "_", "1", "2", "0", "0", "0", "1">>

SyncDeviceID == <<"2", "4", "E", "1", "4", "4", "0", "3", "6", "0", "3", "7", "D", "5", "F", "4">>

\* A device ID whose digits read as 13:00:00 on 5 January 2023
SyncDateLikeDeviceID ==
    <<"2", "0", "2", "3", "0", "1", "0", "5", "A", "1", "3", "0", "0", "0", "0", "F">>

\* The file names of the runs with the time and the device of their headers
SyncNames ==
    { [ filename |-> SyncTimestring \o WavExtension,
        commentTimestring |-> SyncTimestring, deviceID |-> SyncDeviceID ],
      [ filename |-> SyncDeviceID \o <<"_">> \o SyncTimestring \o WavExtension,
        commentTimestring |-> SyncTimestring, deviceID |-> SyncDeviceID ],
      [ filename |-> SyncDateLikeDeviceID \o <<"_">> \o SyncTimestring \o WavExtension,
        commentTimestring |-> SyncTimestring, deviceID |-> SyncDateLikeDeviceID ],
      [ filename |-> SyncDeviceID \o <<"_">> \o SyncTimestring \o WavExtension,
        commentTimestring |-> SyncTimestring, deviceID |-> SyncDateLikeDeviceID ],
      [ filename |-> SyncTimestring \o WavExtension,
        commentTimestring |-> SyncOtherTimestring, deviceID |-> SyncDeviceID ],
      [ filename |-> SyncTimestring \o SyncPostfix \o WavExtension,
        commentTimestring |-> SyncTimestring, deviceID |-> SyncDeviceID ] }

SyncPlainName == CHOOSE name \in SyncNames :
    Len(name.filename) = 19 /\ name.commentTimestring = SyncTimestring

\* The times of the rows are kept in milliseconds after the time of the
\* header
SyncInput(r, c, a, n, f, s, name, g) ==
    [ sampleRate |-> r, resample |-> c, autoResolve |-> a, rows |-> SyncRows(f, s),
      numberOfSamples |-> n, headerSize |-> SyncHeaderSize, guanoSize |-> g,
      filename |-> name.filename,
      commentTimestring |-> name.commentTimestring, deviceID |-> name.deviceID ]

NoFiles == [ txtWritten |-> FALSE, txt |-> <<>>, wavOpened |-> FALSE,
             wavSampleRate |-> 0, wavDataSize |-> 0, wavBytes |-> 0, guano |-> FALSE ]

\* The inputs that the checks before the walk reject come with at most two
\* rows, the CSVs of more than three rows with the long file and with no
\* resample rate or the highest one
InitSync ==
    /\ op = "sync"
    /\ pc = "check"
    /\ \E r \in SyncSampleRates :
           \E c \in SyncResampleChoices, a \in BOOLEAN, n \in SyncSampleCounts,
              f \in SyncFirstRows(r), s \in SeqsUpTo(SyncRowSteps(r), MaxSyncRows),
              name \in SyncNames, g \in {0, SyncGuanoSize} :
               /\ (name # SyncPlainName) => g = 0
               /\ (Len(s) > 1) =>
                      /\ name = SyncPlainName
                      /\ g = 0
                      /\ ~(c.given /\ c.rate < r)
                      /\ f.AUDIOMOTH_TIME = 0
                      /\ f.BUFFERS_FILLED = 0
               /\ (Len(s) > 2) => (n = 30 /\ c.rate \in {0, 12})
               /\ inp = SyncInput(r, c, a, n, f, s, name, g)
    /\ loc = [ i |-> 1,
               missedPPSEvent |-> FALSE,
               misalignedPPSEvent |-> FALSE,
               intervals |-> <<>>,
               cumulativeTimeInterval |-> 0,
               currentIndex |-> 0,
               currentSamples |-> inp.rows[1].TOTAL_SAMPLES,
               currentDate |-> inp.rows[1].AUDIOMOTH_TIME,
               sampleRateTotal |-> 0,
               sampleRateCount |-> 0 ]
    /\ out = NoFiles
    /\ res = "none"

SyncFail(error) ==
    /\ pc' = "done"
    /\ res' = error
    /\ UNCHANGED <<op, inp, loc, out>>

ResampleRateTooLow == inp.resample.given /\ inp.resample.rate < inp.sampleRate

TooFewRows == ~(Len(inp.rows) > 1)

FilenameCheck == checkFilenameAgainstHeader(inp.filename, inp.commentTimestring, inp.deviceID)

FilenameRejected == FilenameCheck # FilenameOkay

TimestampDiffers ==
    DifferenceTooLarge(FileTimestamp(inp.filename), TimestringDate(inp.commentTimestring),
                       inp.rows[1].AUDIOMOTH_TIME)

BufferOverflow ==
    \E i \in 1..Len(inp.rows) :
        inp.rows[i].BUFFERS_FILLED - inp.rows[i].BUFFERS_WRITTEN >= NUMBER_OF_BUFFERS

SyncRejectResampleRate ==
    /\ op = "sync" /\ pc = "check"
    /\ ResampleRateTooLow
    /\ SyncFail("Resample rate is less than original sample rate.")

SyncRejectFilename ==
    /\ op = "sync" /\ pc = "check"
    /\ ~ResampleRateTooLow /\ FilenameRejected
    /\ SyncFail(FilenameCheck)

SyncRejectRows ==
    /\ op = "sync" /\ pc = "check"
    /\ ~ResampleRateTooLow /\ ~FilenameRejected /\ TooFewRows
    /\ SyncFail("Input CSV does not contain at least two PPS events.")

SyncRejectTimestamp ==
    /\ op = "sync" /\ pc = "check"
    /\ ~ResampleRateTooLow /\ ~FilenameRejected /\ ~TooFewRows /\ TimestampDiffers
    /\ SyncFail("Input CSV file timestamp does not match input WAV file.")

SyncRejectOverflow ==
    /\ op = "sync" /\ pc = "check"
    /\ ~ResampleRateTooLow /\ ~FilenameRejected /\ ~TooFewRows /\ ~TimestampDiffers
    /\ BufferOverflow
    /\ SyncFail("Input CSV file shows evidence of recording buffer overflow.")

SyncStartWalk ==
    /\ op = "sync" /\ pc = "check"
    /\ ~ResampleRateTooLow /\ ~FilenameRejected /\ ~TooFewRows /\ ~TimestampDiffers
    /\ ~BufferOverflow
    /\ pc' = "walk"
    /\ UNCHANGED <<op, inp, loc, out, res>>

\* Math.round(timeInterval / MILLISECONDS_IN_SECOND)
RoundedTimeInterval(timeInterval) == RoundDiv(timeInterval, MILLISECONDS_IN_SECOND)

MaximumAllowableTimeError(roundedTimeInterval) ==
    CeilDiv(MAX_LFXO_ERROR * roundedTimeInterval * MILLISECONDS_IN_SECOND, PartsPerMillion)

\* Math.ceil(error * targetSampleRate * roundedTimeInterval), with
\* targetSampleRate = sampleRateTotal / sampleRateCount after the first
\* accepted interval
MaximumAllowableSampleRateError(sampleRate, sampleRateTotal, sampleRateCount, roundedTimeInterval) ==
    IF sampleRateCount = 0
    THEN CeilDiv(MAX_HFXO_ERROR_ABSOLUTE * sampleRate * roundedTimeInterval, PartsPerMillion)
    ELSE CeilDiv(MAX_HFXO_ERROR_RELATIVE * sampleRateTotal * roundedTimeInterval,
                 PartsPerMillion * sampleRateCount)

\* The check of one PPS event against the anchor row
PPSEventAccepted(sampleRate, sampleRateTotal, sampleRateCount, samples, timeInterval) ==
    LET roundedTimeInterval == RoundedTimeInterval(timeInterval)
        error == MaximumAllowableSampleRateError(sampleRate, sampleRateTotal,
                                                 sampleRateCount, roundedTimeInterval)
    IN /\ roundedTimeInterval > 0
       /\ Abs(timeInterval - roundedTimeInterval * MILLISECONDS_IN_SECOND)
              <= MaximumAllowableTimeError(roundedTimeInterval)
       /\ IF sampleRateCount = 0
          THEN Abs(samples - roundedTimeInterval * sampleRate) <= error
          ELSE Abs(samples * sampleRateCount - roundedTimeInterval * sampleRateTotal)
                   <= error * sampleRateCount

\* The anchor row after a row that fails the check: it moves to the row
AnchorAfterRejectMoves(current, next) == next

\* The anchor row after a row that fails the check: it stays
AnchorAfterReject(current, next) == current

\* One iteration of the loop over the rows of the CSV
SyncWalkStep ==
    /\ op = "sync" /\ pc = "walk"
    /\ loc.i < Len(inp.rows)
    /\ LET nextIndex == loc.i
           row == inp.rows[loc.i + 1]
           nextSamples == row.TOTAL_SAMPLES
           nextDate == row.AUDIOMOTH_TIME
           samples == nextSamples - loc.currentSamples
           timeInterval == nextDate - loc.currentDate
           roundedTimeInterval == RoundedTimeInterval(timeInterval)
           interval == [ index |-> Len(loc.intervals),
                         numberOfSamples |-> samples,
                         startPPSIndex |-> loc.currentIndex,
                         endPPSIndex |-> nextIndex,
                         timeInterval |-> roundedTimeInterval,
                         cumulativeTimeInterval |-> loc.cumulativeTimeInterval,
                         firstSampleGap |->
                             TimeToNextSample(inp.sampleRate, inp.rows[loc.currentIndex + 1].TIMER_COUNT),
                         lastSampleGap |-> SampleInterval(inp.sampleRate)
                             - TimeToNextSample(inp.sampleRate, row.TIMER_COUNT) ]
           current == [index |-> loc.currentIndex, samples |-> loc.currentSamples,
                       date |-> loc.currentDate]
           next == [index |-> nextIndex, samples |-> nextSamples, date |-> nextDate]
       IN IF PPSEventAccepted(inp.sampleRate, loc.sampleRateTotal, loc.sampleRateCount,
                              samples, timeInterval)
          THEN LET added == [ loc EXCEPT
                                 !.sampleRateTotal = loc.sampleRateTotal + samples,
                                 !.sampleRateCount = loc.sampleRateCount + roundedTimeInterval,
                                 !.intervals = Append(loc.intervals, interval),
                                 !.cumulativeTimeInterval =
                                     loc.cumulativeTimeInterval + roundedTimeInterval,
                                 !.missedPPSEvent = loc.missedPPSEvent \/ roundedTimeInterval > 1 ]
               IN IF roundedTimeInterval > 1 /\ inp.autoResolve = FALSE
                  THEN /\ loc' = added
                       /\ pc' = "done"
                       /\ res' = "Input CSV file has a missing PPS event."
                  ELSE /\ loc' = [ added EXCEPT !.i = loc.i + 1,
                                                !.currentIndex = nextIndex,
                                                !.currentSamples = nextSamples,
                                                !.currentDate = nextDate ]
                       /\ UNCHANGED <<pc, res>>
          ELSE IF inp.autoResolve = FALSE
               THEN /\ loc' = [ loc EXCEPT !.misalignedPPSEvent = TRUE ]
                    /\ pc' = "done"
                    /\ res' = "Input CSV file has a misaligned PPS event."
               ELSE LET anchor == AnchorAfterReject(current, next)
                    IN /\ loc' = [ loc EXCEPT !.i = loc.i + 1,
                                              !.misalignedPPSEvent = TRUE,
                                              !.currentIndex = anchor.index,
                                              !.currentSamples = anchor.samples,
                                              !.currentDate = anchor.date ]
                       /\ UNCHANGED <<pc, res>>
    /\ UNCHANGED <<op, inp, out>>

SyncRejectNoIntervals ==
    /\ op = "sync" /\ pc = "walk"
    /\ ~(loc.i < Len(inp.rows))
    /\ Len(loc.intervals) = 0
    /\ SyncFail("Input CSV file does not contain any valid intervals between PPS events.")

\* calculateSampleRate: (numberOfSamples - 1) samples in the time between the
\* first and the last sample of the interval, as a fraction in samples per
\* second
calculateSampleRate(interval) ==
    [ index |-> interval.index,
      numberOfSamples |-> interval.numberOfSamples,
      startPPSIndex |-> interval.startPPSIndex,
      endPPSIndex |-> interval.endPPSIndex,
      timeInterval |-> interval.timeInterval,
      cumulativeTimeInterval |-> interval.cumulativeTimeInterval,
      firstSampleGap |-> interval.firstSampleGap,
      lastSampleGap |-> interval.lastSampleGap,
      rateNumerator |-> (interval.numberOfSamples - 1) * SYNC_CLOCK_FREQUENCY,
      rateDenominator |-> interval.timeInterval * SYNC_CLOCK_FREQUENCY
                          - interval.firstSampleGap - interval.lastSampleGap ]

\* Math.round(interval.sampleRate - averageSampleRate), with averageSampleRate =
\* totalNumberOfSamples / totalNumberOfSeconds
SampleRateDifference(interval, totalNumberOfSamples, totalNumberOfSeconds) ==
    RoundDiv(interval.rateNumerator * totalNumberOfSeconds
                 - totalNumberOfSamples * interval.rateDenominator,
             interval.rateDenominator * totalNumberOfSeconds)

TextLine(section, line, interval, value) ==
    [ section |-> section, line |-> line, startPPSIndex |-> interval.startPPSIndex,
      endPPSIndex |-> interval.endPPSIndex, time |-> interval.cumulativeTimeInterval,
      value |-> value ]

NoInterval == [startPPSIndex |-> 0, endPPSIndex |-> 0, cumulativeTimeInterval |-> 0]

TextHeading(section) == TextLine(section, "heading", NoInterval, 0)

TextBlank == TextLine("", "blank", NoInterval, 0)

\* The lines of a section of the report, one for each interval that
\* satisfies Listed, with Value(interval) as the number it reports
TextLines(section, intervals, Listed(_), Value(_)) ==
    LET listed == SelectSeq(intervals, Listed)
    IN [k \in 1..Len(listed) |-> TextLine(section, "interval", listed[k], Value(listed[k]))]

IsMissed(interval) == interval.timeInterval > 1

IsMisaligned(interval) == interval.startPPSIndex # interval.endPPSIndex - 1

TimeIntervalOf(interval) == interval.timeInterval

\* The report on missed and misaligned PPS events
AutoResolveText(intervals, missedPPSEvent, misalignedPPSEvent) ==
    (IF missedPPSEvent
     THEN <<TextHeading("MISSED PPS EVENTS")>>
          \o TextLines("MISSED PPS EVENTS", intervals, IsMissed, TimeIntervalOf)
     ELSE <<>>)
    \o (IF missedPPSEvent /\ misalignedPPSEvent THEN <<TextBlank>> ELSE <<>>)
    \o (IF misalignedPPSEvent
        THEN <<TextHeading("MISALIGNED PPS EVENTS")>>
             \o TextLines("MISALIGNED PPS EVENTS", intervals, IsMisaligned, TimeIntervalOf)
        ELSE <<>>)

\* The first loop of the PPS fixes, from interval i on (i counts from 1): a
\* sample that seems to come just before the PPS event comes after it
RECURSIVE FixOrder(_, _, _, _, _)
FixOrder(intervals, i, sampleInterval, totalNumberOfSamples, totalNumberOfSeconds) ==
    IF ~(i < Len(intervals)) THEN intervals
    ELSE LET interval == intervals[i]
             nextInterval == intervals[i + 1]
             fix == /\ interval.lastSampleGap < MAXIMUM_ALLOWABLE_PPS_OFFSET
                    /\ SampleRateDifference(interval, totalNumberOfSamples, totalNumberOfSeconds) = -1
                    /\ SampleRateDifference(nextInterval, totalNumberOfSamples, totalNumberOfSeconds) = 1
             fixed == [ intervals EXCEPT
                          ![i] = calculateSampleRate([interval EXCEPT !.lastSampleGap = sampleInterval]),
                          ![i + 1] = calculateSampleRate([nextInterval EXCEPT !.firstSampleGap = 0]) ]
         IN FixOrder(IF fix THEN fixed ELSE intervals, i + 1, sampleInterval,
                     totalNumberOfSamples, totalNumberOfSeconds)

\* At the maximum sample rate: an extra sample in the first interval
FixFirst(intervals, sampleInterval, totalNumberOfSamples, totalNumberOfSeconds) ==
    IF SampleRateDifference(intervals[1], totalNumberOfSamples, totalNumberOfSeconds) = 1
    THEN [ intervals EXCEPT ![1] = calculateSampleRate(
               [intervals[1] EXCEPT !.firstSampleGap = @ - sampleInterval]) ]
    ELSE intervals

\* At the maximum sample rate: a sample after the PPS event and a missed one
RECURSIVE FixOrderAndMissed(_, _, _, _, _)
FixOrderAndMissed(intervals, i, sampleInterval, totalNumberOfSamples, totalNumberOfSeconds) ==
    IF ~(i < Len(intervals)) THEN intervals
    ELSE LET interval == intervals[i]
             nextInterval == intervals[i + 1]
             fix == /\ interval.lastSampleGap < MAXIMUM_ALLOWABLE_PPS_OFFSET
                    /\ SampleRateDifference(interval, totalNumberOfSamples, totalNumberOfSeconds) = -1
                    /\ SampleRateDifference(nextInterval, totalNumberOfSamples, totalNumberOfSeconds) = 0
             fixed == [ intervals EXCEPT
                          ![i] = calculateSampleRate([interval EXCEPT !.lastSampleGap = sampleInterval]),
                          ![i + 1] = calculateSampleRate(
                                         [nextInterval EXCEPT !.firstSampleGap = sampleInterval]) ]
         IN FixOrderAndMissed(IF fix THEN fixed ELSE intervals, i + 1, sampleInterval,
                              totalNumberOfSamples, totalNumberOfSeconds)

\* At the maximum sample rate: a missing sample
FixMissing(intervals, sampleInterval, totalNumberOfSamples, totalNumberOfSeconds) ==
    [ i \in 1..Len(intervals) |->
        IF SampleRateDifference(intervals[i], totalNumberOfSamples, totalNumberOfSeconds) = -1
        THEN calculateSampleRate([intervals[i] EXCEPT !.firstSampleGap = @ + sampleInterval])
        ELSE intervals[i] ] \o <<>>

FixPPSEvents(intervals, sampleRate, totalNumberOfSamples, totalNumberOfSeconds) ==
    LET sampleInterval == SampleInterval(sampleRate)
        ordered == FixOrder(intervals, 1, sampleInterval, totalNumberOfSamples, totalNumberOfSeconds)
    IN IF sampleRate = MAXIMUM_ALLOWABLE_SAMPLE_RATE
       THEN FixMissing(
                FixOrderAndMissed(
                    FixFirst(ordered, sampleInterval, totalNumberOfSamples, totalNumberOfSeconds),
                    1, sampleInterval, totalNumberOfSamples, totalNumberOfSeconds),
                sampleInterval, totalNumberOfSamples, totalNumberOfSeconds)
       ELSE ordered

\* The shift of the interval times by half the conversion period, in ticks
AlignTimeOffset(sampleRate) ==
    LET lastAquisitionEnds == 1 + CLOCK_DIVIDER * (CONVERSION_CYCLES + 1)
        firstAquisitionStarts == ClockTicksToCompleteSample(sampleRate) - 1 - CLOCK_DIVIDER
    IN (lastAquisitionEnds + firstAquisitionStarts) \div 2

\* The loop that aligns the samples, from interval i on (i counts from 1)
RECURSIVE AlignSamples(_, _, _)
AlignSamples(intervals, i, sampleRate) ==
    IF i > Len(intervals) THEN intervals
    ELSE LET interval == intervals[i]
             firstSampleGap == interval.firstSampleGap - AlignTimeOffset(sampleRate)
             lastSampleGap == interval.lastSampleGap + AlignTimeOffset(sampleRate)
             moved == [ interval EXCEPT
                          !.numberOfSamples = @ - 1,
                          !.firstSampleGap = firstSampleGap + SampleInterval(sampleRate),
                          !.lastSampleGap = lastSampleGap ]
             kept == [ interval EXCEPT !.firstSampleGap = firstSampleGap,
                                       !.lastSampleGap = lastSampleGap ]
             aligned ==
                 IF firstSampleGap < 0
                 THEN IF i = 1 THEN [ intervals EXCEPT ![i] = moved ]
                      ELSE [ intervals EXCEPT
                               ![i] = moved,
                               ![i - 1] = [ @ EXCEPT
                                   !.numberOfSamples = @ + 1,
                                   !.lastSampleGap = SampleInterval(sampleRate) - moved.firstSampleGap ] ]
                 ELSE [ intervals EXCEPT ![i] = kept ]
         IN AlignSamples(aligned, i + 1, sampleRate)

\* The report on the intervals whose sample rate still differs from the average
UnusualSampleRateText(intervals, totalNumberOfSamples, totalNumberOfSeconds, flagged) ==
    LET lines == TextLines("UNUSUAL SAMPLE RATE", intervals,
                     LAMBDA x : SampleRateDifference(x, totalNumberOfSamples, totalNumberOfSeconds) # 0,
                     LAMBDA x : SampleRateDifference(x, totalNumberOfSamples, totalNumberOfSeconds))
    IN IF lines = <<>> THEN <<>>
       ELSE (IF flagged THEN <<TextBlank>> ELSE <<>>)
            \o <<TextHeading("UNUSUAL SAMPLE RATE")>> \o lines

\* From the end of the loop over the rows to the check of the sample rates
SyncPlan ==
    /\ op = "sync" /\ pc = "walk"
    /\ ~(loc.i < Len(inp.rows))
    /\ Len(loc.intervals) # 0
    /\ LET calculated ==
               [i \in 1..Len(loc.intervals) |-> calculateSampleRate(loc.intervals[i])] \o <<>>
           totalNumberOfSeconds == SumSeq([i \in 1..Len(calculated) |-> calculated[i].timeInterval])
           totalNumberOfSamples == SumSeq([i \in 1..Len(calculated) |-> calculated[i].numberOfSamples])
           autoResolveText == AutoResolveText(calculated, loc.missedPPSEvent, loc.misalignedPPSEvent)
           fixed == IF FIX_PPS_EVENTS
                    THEN FixPPSEvents(calculated, inp.sampleRate, totalNumberOfSamples, totalNumberOfSeconds)
                    ELSE calculated
           aligned == IF ALIGN_SAMPLES THEN AlignSamples(fixed, 1, inp.sampleRate) ELSE fixed
           recalculated == [i \in 1..Len(aligned) |-> calculateSampleRate(aligned[i])] \o <<>>
           unusualText == UnusualSampleRateText(recalculated, totalNumberOfSamples, totalNumberOfSeconds,
                                                loc.missedPPSEvent \/ loc.misalignedPPSEvent)
       IN loc' = [ intervals |-> recalculated,
                   missedPPSEvent |-> loc.missedPPSEvent,
                   misalignedPPSEvent |-> loc.misalignedPPSEvent,
                   unusualSampleRate |-> unusualText # <<>>,
                   totalNumberOfSeconds |-> totalNumberOfSeconds,
                   totalNumberOfSamples |-> totalNumberOfSamples,
                   autoResolveText |-> autoResolveText \o unusualText,
                   firstSampleIsBeforeFirstInterval |->
                       \/ fixed[1].firstSampleGap < 0
                       \/ ALIGN_SAMPLES /\ fixed[1].firstSampleGap - AlignTimeOffset(inp.sampleRate) < 0 ]
    /\ pc' = "report"
    /\ UNCHANGED <<op, inp, out, res>>

\* The test of the unusual sample rates without the test of autoResolve
UnusualSampleRateFailsAlways(unusualSampleRate, autoResolve) == unusualSampleRate

\* if (unusualSampleRate && autoResolve === false)
UnusualSampleRateFails(unusualSampleRate, autoResolve) ==
    unusualSampleRate /\ autoResolve = FALSE

SyncRejectUnusual ==
    /\ op = "sync" /\ pc = "report"
    /\ UnusualSampleRateFails(loc.unusualSampleRate, inp.autoResolve)
    /\ SyncFail("Input CSV file has an unusual sample count between PPS events.")

\* numberOfSamplesToWrite when resampling
ResampledNumberOfSamples(numberOfSamples, sampleRate, targetSampleRate) ==
    LET gcd == greatestCommonDivider(sampleRate \div SYNC_HERTZ_IN_KILOHERTZ,
                                     targetSampleRate \div SYNC_HERTZ_IN_KILOHERTZ)
        divider == (sampleRate \div SYNC_HERTZ_IN_KILOHERTZ) \div gcd
        multiplier == (targetSampleRate \div SYNC_HERTZ_IN_KILOHERTZ) \div gcd
    IN FloorDiv(numberOfSamples, divider) * multiplier

\* Writes the report, shifts the intervals at the maximum sample rate and
\* calculates the output parameters
SyncReport ==
    /\ op = "sync" /\ pc = "report"
    /\ ~UnusualSampleRateFails(loc.unusualSampleRate, inp.autoResolve)
    /\ LET reported == loc.missedPPSEvent \/ loc.misalignedPPSEvent \/ loc.unusualSampleRate
           shifted == IF inp.sampleRate = MAXIMUM_ALLOWABLE_SAMPLE_RATE
                      THEN [ i \in 1..Len(loc.intervals) |->
                               calculateSampleRate([ loc.intervals[i] EXCEPT
                                   !.firstSampleGap = @ + SampleInterval(inp.sampleRate) ]) ] \o <<>>
                      ELSE loc.intervals
           maximumNumberOfSamplesToRead ==
               FloorDiv(NUMBER_OF_BYTES_IN_SAMPLE * inp.numberOfSamples, NUMBER_OF_BYTES_IN_SAMPLE)
           resampleRequired == inp.resample.given /\ inp.sampleRate # inp.resample.rate
           targetSampleRate == IF resampleRequired THEN inp.resample.rate ELSE inp.sampleRate
       IN /\ out' = [ out EXCEPT !.txtWritten = reported,
                                 !.txt = IF reported THEN loc.autoResolveText ELSE <<>> ]
          /\ loc' = [ intervals |-> shifted,
                      missedPPSEvent |-> loc.missedPPSEvent,
                      misalignedPPSEvent |-> loc.misalignedPPSEvent,
                      unusualSampleRate |-> loc.unusualSampleRate,
                      firstSampleIsBeforeFirstInterval |-> loc.firstSampleIsBeforeFirstInterval,
                      targetSampleRate |-> targetSampleRate,
                      maximumNumberOfSamplesToRead |-> maximumNumberOfSamplesToRead,
                      numberOfSamplesToWrite |->
                          IF resampleRequired
                          THEN ResampledNumberOfSamples(maximumNumberOfSamplesToRead,
                                                        inp.sampleRate, targetSampleRate)
                          ELSE maximumNumberOfSamplesToRead,
                      i |-> 0,
                      inputBufferIndex |-> 0,
                      outputBufferIndex |-> 0,
                      numberOfSamplesRead |-> 0,
                      numberOfSamplesWritten |-> 0,
                      totalNumberOfSamples |-> 0 ]
    /\ pc' = "open"
    /\ UNCHANGED <<op, inp, res>>

CalculatedFileSize == inp.headerSize + loc.numberOfSamplesToWrite * NUMBER_OF_BYTES_IN_SAMPLE

SyncRejectSize ==
    /\ op = "sync" /\ pc = "open"
    /\ CalculatedFileSize > SYNC_UINT32_MAX
    /\ SyncFail("Generated WAV file would exceed maximum WAV file size.")

\* readSampleValue: the cursors after reading one sample
readSampleValue(e) ==
    [ e EXCEPT !.numberOfSamplesRead = @ + 1,
               !.inputBufferIndex =
                   IF @ + 1 = SYNC_FILE_BUFFER_SIZE \div NUMBER_OF_BYTES_IN_SAMPLE THEN 0 ELSE @ + 1 ]

\* writeSampleValue: the cursors and the bytes in the output file after
\* writing one sample
writeSampleValue(e) ==
    LET full == e.outputBufferIndex + 1 = SYNC_FILE_BUFFER_SIZE \div NUMBER_OF_BYTES_IN_SAMPLE
    IN [ e EXCEPT !.numberOfSamplesWritten = @ + 1,
                  !.outputBufferIndex = IF full THEN 0 ELSE @ + 1,
                  !.wavBytes = IF full THEN @ + SYNC_FILE_BUFFER_SIZE ELSE @ ]

\* Opens the output file, writes its header and reads the first samples
SyncOpen ==
    /\ op = "sync" /\ pc = "open"
    /\ ~(CalculatedFileSize > SYNC_UINT32_MAX)
    /\ out' = [ out EXCEPT !.wavOpened = TRUE,
                           !.wavSampleRate = loc.targetSampleRate,
                           !.wavDataSize = loc.numberOfSamplesToWrite * NUMBER_OF_BYTES_IN_SAMPLE,
                           !.guano = inp.guanoSize > 0 ]
    /\ LET first == readSampleValue(loc)
           second == IF loc.firstSampleIsBeforeFirstInterval THEN readSampleValue(first) ELSE first
       IN loc' = [ second EXCEPT
                     !.totalNumberOfSamples = IF loc.firstSampleIsBeforeFirstInterval THEN 1 ELSE 0 ]
    /\ pc' = "intervals"
    /\ UNCHANGED <<op, inp, res>>

\* The write of an output sample without the test of the number written
MayWriteAlways(numberOfSamplesWritten, numberOfSamplesToWrite) == TRUE

\* numberOfSamplesWritten < numberOfSamplesToWrite, the test before each write
MayWrite(numberOfSamplesWritten, numberOfSamplesToWrite) ==
    numberOfSamplesWritten < numberOfSamplesToWrite

\* currentOffset > nextSampleOffset, for currentOffset = j / targetSampleRate
\* seconds and nextSampleOffset = offset ticks + steps / interval.sampleRate
\* seconds (interval.sampleRate is positive)
CurrentOffsetIsAfter(j, targetSampleRate, offset, steps, interval) ==
    LET samples == interval.rateNumerator \div SYNC_CLOCK_FREQUENCY
    IN j * samples * SYNC_CLOCK_FREQUENCY
           > targetSampleRate * (offset * samples + steps * interval.rateDenominator)

\* The cursors of the loops that write the output: the counts and buffer
\* indices of sync, the bytes in the output file, the additions to
\* nextSampleOffset and the index j of the output sample in the interval
Cursors(totalNumberOfSamples) ==
    [ totalNumberOfSamples |-> totalNumberOfSamples,
      numberOfSamplesRead |-> loc.numberOfSamplesRead,
      inputBufferIndex |-> loc.inputBufferIndex,
      numberOfSamplesWritten |-> loc.numberOfSamplesWritten,
      outputBufferIndex |-> loc.outputBufferIndex,
      wavBytes |-> out.wavBytes,
      steps |-> 0,
      j |-> 0 ]

\* while (currentOffset > nextSampleOffset) of the loop over an interval;
\* e.steps counts the additions of 1 / interval.sampleRate to nextSampleOffset
RECURSIVE Advance(_, _, _)
Advance(e, j, interval) ==
    IF ~CurrentOffsetIsAfter(j, loc.targetSampleRate, interval.firstSampleGap, e.steps, interval)
    THEN e
    ELSE LET read == /\ e.numberOfSamplesRead < loc.maximumNumberOfSamplesToRead
                     /\ e.numberOfSamplesRead < e.totalNumberOfSamples + 1
         IN Advance([ (IF read THEN readSampleValue(e) ELSE e) EXCEPT !.steps = @ + 1 ],
                    j, interval)

\* for (j = 0; j < numberOfSamples; j += 1) of the loop over an interval
RECURSIVE WriteInterval(_, _)
WriteInterval(e, interval) ==
    IF ~(e.j < interval.timeInterval * loc.targetSampleRate) THEN e
    ELSE LET advanced == Advance(e, e.j, interval)
             written == IF MayWrite(advanced.numberOfSamplesWritten, loc.numberOfSamplesToWrite)
                        THEN writeSampleValue(advanced) ELSE advanced
         IN WriteInterval([written EXCEPT !.j = @ + 1], interval)

\* Read on to next sample
RECURSIVE ReadOn(_)
ReadOn(e) ==
    IF /\ e.numberOfSamplesRead < loc.maximumNumberOfSamplesToRead
       /\ e.numberOfSamplesRead < e.totalNumberOfSamples + 1
    THEN ReadOn(readSampleValue(e))
    ELSE e

\* One iteration of the loop over the intervals
SyncIntervalStep ==
    /\ op = "sync" /\ pc = "intervals"
    /\ loc.i < Len(loc.intervals)
    /\ LET interval == loc.intervals[loc.i + 1]
           e == Cursors(loc.totalNumberOfSamples + interval.numberOfSamples)
           written == ReadOn(WriteInterval(e, interval))
       IN /\ loc' = [ loc EXCEPT !.i = @ + 1,
                                 !.totalNumberOfSamples = written.totalNumberOfSamples,
                                 !.numberOfSamplesRead = written.numberOfSamplesRead,
                                 !.inputBufferIndex = written.inputBufferIndex,
                                 !.numberOfSamplesWritten = written.numberOfSamplesWritten,
                                 !.outputBufferIndex = written.outputBufferIndex ]
          /\ out' = [ out EXCEPT !.wavBytes = written.wavBytes ]
    /\ UNCHANGED <<op, pc, inp, res>>

\* while (currentOffset > nextSampleOffset) of the remaining output values;
\* nextSampleOffset starts one sample after -interval.lastSampleGap
RECURSIVE AdvanceRemaining(_, _, _)
AdvanceRemaining(e, m, interval) ==
    IF ~CurrentOffsetIsAfter(m, loc.targetSampleRate, -interval.lastSampleGap, e.steps + 1, interval)
    THEN e
    ELSE AdvanceRemaining(
             [ (IF e.numberOfSamplesRead < loc.maximumNumberOfSamplesToRead
                THEN readSampleValue(e) ELSE e) EXCEPT !.steps = @ + 1 ],
             m, interval)

\* while (numberOfSamplesWritten < numberOfSamplesToWrite) after the
\* intervals; m counts the additions of 1 / targetSampleRate to currentOffset
RECURSIVE WriteRemaining(_, _, _)
WriteRemaining(e, m, interval) ==
    IF ~(e.numberOfSamplesWritten < loc.numberOfSamplesToWrite) THEN e
    ELSE LET advanced == AdvanceRemaining(e, m, interval)
         IN WriteRemaining(
                IF MayWrite(advanced.numberOfSamplesWritten, loc.numberOfSamplesToWrite)
                THEN writeSampleValue(advanced) ELSE advanced,
                m + 1, interval)

\* The remaining output values, the flush of the output buffer and the return
SyncFinish ==
    /\ op = "sync" /\ pc = "intervals"
    /\ ~(loc.i < Len(loc.intervals))
    /\ LET interval == loc.intervals[Len(loc.intervals)]
           e == Cursors(loc.totalNumberOfSamples)
           written == WriteRemaining(e, 0, interval)
       IN /\ loc' = [ loc EXCEPT !.numberOfSamplesRead = written.numberOfSamplesRead,
                                 !.inputBufferIndex = written.inputBufferIndex,
                                 !.numberOfSamplesWritten = written.numberOfSamplesWritten,
                                 !.outputBufferIndex = written.outputBufferIndex ]
          /\ out' = [ out EXCEPT !.wavBytes =
                        written.wavBytes + written.outputBufferIndex * NUMBER_OF_BYTES_IN_SAMPLE ]
    /\ pc' = "done"
    /\ res' = "success"
    /\ UNCHANGED <<op, inp>>

NextSync ==
    \/ SyncRejectResampleRate
    \/ SyncRejectFilename
    \/ SyncRejectRows
    \/ SyncRejectTimestamp
    \/ SyncRejectOverflow
    \/ SyncStartWalk
    \/ SyncWalkStep
    \/ SyncRejectNoIntervals
    \/ SyncPlan
    \/ SyncRejectUnusual
    \/ SyncReport
    \/ SyncRejectSize
    \/ SyncOpen
    \/ SyncIntervalStep
    \/ SyncFinish

SpecSync == InitSync /\ [][NextSync]_vars

(***************************************************************************)
(* Claims about sync                                                       *)
(***************************************************************************)

SyncWalking == op = "sync" /\ pc = "walk" /\ loc.i < Len(inp.rows)

\* The row the walk compares against the anchor row
WalkRow == inp.rows[loc.i + 1]

\* The duration from the anchor row to the row, rounded to whole seconds
WalkRoundedDuration ==
    (2 * (WalkRow.AUDIOMOTH_TIME - loc.currentDate) + 1000) \div 2000

WalkRowAccepted ==
    PPSEventAccepted(inp.sampleRate, loc.sampleRateTotal, loc.sampleRateCount,
                     WalkRow.TOTAL_SAMPLES - loc.currentSamples,
                     WalkRow.AUDIOMOTH_TIME - loc.currentDate)

WalkAnchor == <<loc.currentIndex, loc.currentSamples, loc.currentDate>>

\* Each interval starts at the row the previous one ended at, the first one
\* at the first row
IntervalsChained(intervals) ==
    \A k \in 1..Len(intervals) :
        intervals[k].startPPSIndex = IF k = 1 THEN 0 ELSE intervals[k - 1].endPPSIndex

C8_WalkStep ==
    SyncWalking =>
        IF inp.autoResolve = FALSE
        THEN /\ ~WalkRowAccepted =>
                    /\ pc' = "done"
                    /\ res' = "Input CSV file has a misaligned PPS event."
                    /\ out' = NoFiles
             /\ (WalkRowAccepted /\ WalkRoundedDuration > 1) =>
                    /\ pc' = "done"
                    /\ res' = "Input CSV file has a missing PPS event."
                    /\ out' = NoFiles
             /\ (WalkRowAccepted /\ WalkRoundedDuration <= 1) =>
                    pc' = "walk" /\ res' = "none"
        ELSE /\ pc' = "walk" /\ res' = "none"
             /\ loc'.i = loc.i + 1
             /\ IntervalsChained(loc'.intervals)
             /\ ~WalkRowAccepted =>
                    /\ WalkAnchor' = WalkAnchor
                    /\ loc'.intervals = loc.intervals
             /\ (WalkRowAccepted /\ WalkRoundedDuration > 1) =>
                    /\ Len(loc'.intervals) = Len(loc.intervals) + 1
                    /\ SubSeq(loc'.intervals, 1, Len(loc.intervals)) = loc.intervals
                    /\ LET kept == loc'.intervals[Len(loc'.intervals)]
                       IN /\ kept.startPPSIndex = loc.currentIndex
                          /\ kept.endPPSIndex = loc.i
                          /\ kept.timeInterval = WalkRoundedDuration
                          /\ kept.numberOfSamples = WalkRow.TOTAL_SAMPLES - loc.currentSamples

\* C8: while sync walks the rows of the CSV, with autoResolve = false the
\* first row that fails the acceptance check ends the run with the
\* misaligned-PPS failure and the first accepted interval whose rounded
\* duration exceeds 1 s ends it with the missing-PPS failure, with no output
\* WAV or TXT created; with autoResolve = true a row that fails the check is
\* skipped and the anchor row stays (the next row is compared against the
\* same anchor), and an interval with a missed PPS event is kept as one
\* interval from the anchor row to the row.
C8_WalkFailsOrResolves == [][C8_WalkStep]_vars

\* With autoResolve = true: the second row is skipped, the third is accepted
\* against the first row, and the interval of 2 s between them is kept
C8_Witness ==
    /\ op = "sync" /\ pc = "walk" /\ inp.autoResolve
    /\ loc.misalignedPPSEvent /\ loc.missedPPSEvent
    /\ loc.i = 3
    /\ Len(loc.intervals) = 1
    /\ loc.intervals[1].startPPSIndex = 0
    /\ loc.intervals[1].endPPSIndex = 2
    /\ loc.intervals[1].timeInterval = 2

SyncDone == op = "sync" /\ pc = "done"

SyncSucceeded == SyncDone /\ res = "success"

\* A run with autoResolve whose file name is accepted, whose CSV has two rows
\* or more, passes the check of the first timestamp and shows no buffer
\* overflow, and that does not fail on the resample rate or the size of the
\* output
AutoResolveRunChecked ==
    /\ SyncDone
    /\ inp.autoResolve
    /\ ~FilenameRejected
    /\ Len(inp.rows) >= 2
    /\ ~TimestampDiffers
    /\ \A k \in 1..Len(inp.rows) : inp.rows[k].BUFFERS_FILLED - inp.rows[k].BUFFERS_WRITTEN < 8
    /\ res # "Resample rate is less than original sample rate."
    /\ res # "Generated WAV file would exceed maximum WAV file size."

\* The rows after the first that end no interval
SkippedRows ==
    {k \in 1..(Len(inp.rows) - 1) : \A i \in 1..Len(loc.intervals) : loc.intervals[i].endPPSIndex # k}

ReportHasHeading(section) ==
    \E k \in 1..Len(out.txt) : out.txt[k].section = section /\ out.txt[k].line = "heading"

ReportHasInterval(section, interval) ==
    \E k \in 1..Len(out.txt) :
        /\ out.txt[k].section = section /\ out.txt[k].line = "interval"
        /\ out.txt[k].startPPSIndex = interval.startPPSIndex
        /\ out.txt[k].endPPSIndex = interval.endPPSIndex

\* The report is written when there is an anomaly, with a section for each
\* kind of anomaly and a line for each interval with a missed PPS event, with
\* skipped rows or with an unusual sample rate
AnomaliesListed ==
    LET missed == {i \in 1..Len(loc.intervals) : loc.intervals[i].timeInterval > 1}
        spanning == {i \in 1..Len(loc.intervals) :
                        loc.intervals[i].endPPSIndex - loc.intervals[i].startPPSIndex > 1}
    IN /\ out.txtWritten = (missed # {} \/ SkippedRows # {} \/ loc.unusualSampleRate)
       /\ missed # {} =>
              /\ ReportHasHeading("MISSED PPS EVENTS")
              /\ \A i \in missed : ReportHasInterval("MISSED PPS EVENTS", loc.intervals[i])
       /\ SkippedRows # {} =>
              /\ ReportHasHeading("MISALIGNED PPS EVENTS")
              /\ \A i \in spanning : ReportHasInterval("MISALIGNED PPS EVENTS", loc.intervals[i])
       /\ loc.unusualSampleRate =>
              /\ ReportHasHeading("UNUSUAL SAMPLE RATE")
              /\ \E k \in 1..Len(out.txt) :
                     /\ out.txt[k].section = "UNUSUAL SAMPLE RATE"
                     /\ out.txt[k].line = "interval" /\ out.txt[k].value # 0

\* C9 as stated: with autoResolve = true, every run whose CSV has at least
\* two rows and passes the first-timestamp and buffer-overflow checks
\* completes with success, with the anomalies listed in the TXT report.
C9_AutoResolveAlwaysSucceeds ==
    AutoResolveRunChecked => (res = "success" /\ AnomaliesListed)

\* C9 as the code has it: with autoResolve = true, every such run in which
\* at least one row is accepted as the end of an interval completes with
\* success, with the anomalies listed in the TXT report; a run in which
\* every row is rejected fails.
C9_AutoResolveSucceedsWithAnInterval ==
    /\ (AutoResolveRunChecked /\ Len(loc.intervals) >= 1) => (res = "success" /\ AnomaliesListed)
    /\ (AutoResolveRunChecked /\ Len(loc.intervals) = 0) =>
           res = "Input CSV file does not contain any valid intervals between PPS events."

\* A run with a skipped row, a missed PPS event and an unusual sample rate
\* that succeeds with the three sections in its report
C9_Witness ==
    /\ AutoResolveRunChecked /\ res = "success"
    /\ SkippedRows # {}
    /\ \E i \in 1..Len(loc.intervals) : loc.intervals[i].timeInterval > 1
    /\ loc.unusualSampleRate
    /\ out.txtWritten
    /\ ReportHasHeading("UNUSUAL SAMPLE RATE")

\* The greatest common divisor of the two rates, in kHz
SyncRatioDivisor == GreatestCommonDivisor(inp.sampleRate, inp.resample.rate)

\* The number of samples of the output: the input's without resampling, the
\* whole groups of sampleRate / gcd input samples times resampleRate / gcd
\* with it
ExpectedSamplesWritten ==
    IF inp.resample.given /\ inp.resample.rate # inp.sampleRate
    THEN (inp.numberOfSamples \div (inp.sampleRate \div SyncRatioDivisor))
             * (inp.resample.rate \div SyncRatioDivisor)
    ELSE inp.numberOfSamples

\* C10: a successful sync writes exactly numberOfSamplesToWrite samples: the
\* number of input samples when no resampling is requested or the rates are
\* equal, floor(input samples / (sampleRate / gcd)) * (resampleRate / gcd)
\* when resampleRate differs from the sample rate; the loop over the
\* intervals never writes more than that number and the remaining values
\* after the last interval make up the rest.
C10_WritesExactCount ==
    (op = "sync" /\ out.wavOpened) =>
        /\ loc.numberOfSamplesToWrite = ExpectedSamplesWritten
        /\ loc.numberOfSamplesWritten <= ExpectedSamplesWritten
        /\ out.wavBytes <= 2 * ExpectedSamplesWritten
        /\ res = "success" =>
               /\ loc.numberOfSamplesWritten = ExpectedSamplesWritten
               /\ out.wavBytes = 2 * ExpectedSamplesWritten
               /\ out.wavDataSize = 2 * ExpectedSamplesWritten

\* 30 samples at rate 8 resampled to 12 with one interval of 1 s: the loop
\* over the interval writes 12 samples, the remaining values the other 33
C10_Witness ==
    /\ SyncSucceeded
    /\ inp.sampleRate = 8 /\ inp.resample.given /\ inp.resample.rate = 12
    /\ inp.numberOfSamples = 30
    /\ Len(loc.intervals) = 1 /\ loc.intervals[1].timeInterval = 1
    /\ loc.numberOfSamplesWritten = 45
    /\ out.wavBytes = 90

(***************************************************************************)
(* align (aligner.js): initialise reads the lines of a GPS.TXT file into   *)
(* the list of fixes, align corrects one recording against the fixes and   *)
(* finalise writes GPS.CSV.  fixes, recordings, currentFix and             *)
(* medianSampleRate are the globals of the module; they live in loc.  A    *)
(* value that may be null is a sequence: <<>> for null, <<v>> for v.       *)
(* loc.initialised tells that the fixes are those of an initialise call    *)
(* that returned success.                                                  *)
(* Timestamps are in milliseconds, sample rates of fixes in millihertz.    *)
(***************************************************************************)

FIX_IDENTIFIER == "FIX"

RECORD_IDENTIFIER == "RECORDING"

MILLIHERTZ_IN_HERTZ == 1000

ALIGN_MILLISECONDS_IN_SECOND == 1000

TIME_OFFSET_MULTIPLIER == 10

\* The lines of GPS.TXT read in one session, over all calls of initialise, and
\* the calls of one session
MaxGpsLines == 6

MaxAlignCalls == 4

\* The lines of GPS.TXT by the regular expression they match (processLine
\* tries them in the order fix, set, notUpdated, updated, sampleRate), with
\* the groups each one captures
GpsLine(kind, timestamp, milliseconds, fast, hertz, millihertz) ==
    [ kind |-> kind, timestamp |-> timestamp, milliseconds |-> milliseconds,
      fast |-> fast, hertz |-> hertz, millihertz |-> millihertz ]

GpsLines ==
    { GpsLine("fix", 0, 0, FALSE, 0, 0), GpsLine("fix", 1000, 0, FALSE, 0, 0),
      GpsLine("set", 1000, 0, FALSE, 0, 0), GpsLine("notUpdated", 2000, 0, FALSE, 0, 0),
      GpsLine("updated", 1000, 12, FALSE, 0, 0), GpsLine("updated", 2000, 3, TRUE, 0, 0),
      GpsLine("sampleRate", 1000, 0, FALSE, 48000, 0), GpsLine("sampleRate", 1000, 0, FALSE, 48000, 500),
      GpsLine("sampleRate", 2000, 0, FALSE, 48000, 0), GpsLine("sampleRate", 2000, 0, FALSE, 48000, 300),
      GpsLine("other", 0, 0, FALSE, 0, 0) }

\* timestamp === currentFix.timestamp + MILLISECONDS_IN_SECOND of a line that
\* reports the outcome of setting the time
TimeLineMatches(currentFix, timestamp) ==
    currentFix # Null /\ timestamp = currentFix[1].timestamp + ALIGN_MILLISECONDS_IN_SECOND

\* The test of a sample rate line without the test of the time offset
SampleRateLineMatchesAnyOffset(currentFix, timestamp) ==
    currentFix # Null /\ timestamp = currentFix[1].timestamp

\* currentFix !== null && currentFix.timeOffset !== null &&
\* timestamp === currentFix.timestamp of a sample rate line
SampleRateLineMatches(currentFix, timestamp) ==
    currentFix # Null /\ currentFix[1].timeOffset # Null /\ timestamp = currentFix[1].timestamp

\* The time offset of a 'Time was updated' line, in tenths of a millisecond
UpdatedTimeOffset(line) ==
    LET timeOffset == TIME_OFFSET_MULTIPLIER * line.milliseconds * (IF line.fast THEN -1 ELSE 1)
    IN IF timeOffset > 0 THEN timeOffset + TIME_OFFSET_MULTIPLIER \div 2
       ELSE IF timeOffset < 0 THEN timeOffset - TIME_OFFSET_MULTIPLIER \div 2
       ELSE timeOffset

\* processLine: the fixes and the pending fix after one line
processLine(fixes, currentFix, line) ==
    CASE line.kind = "fix" ->
             [ fixes |-> fixes,
               currentFix |->
                   << [ (IF currentFix = Null
                         THEN [ event |-> FIX_IDENTIFIER, timestamp |-> 0, timeOffset |-> Null,
                                sampleRate |-> Null ]
                         ELSE currentFix[1])
                        EXCEPT !.timestamp = line.timestamp, !.timeOffset = Null ] >> ]
      [] line.kind \in {"set", "notUpdated"} ->
             [ fixes |-> fixes,
               currentFix |->
                   IF TimeLineMatches(currentFix, line.timestamp)
                   THEN << [ currentFix[1] EXCEPT
                               !.timestamp = @ + ALIGN_MILLISECONDS_IN_SECOND,
                               !.timeOffset = <<0>> ] >>
                   ELSE currentFix ]
      [] line.kind = "updated" ->
             [ fixes |-> fixes,
               currentFix |->
                   IF TimeLineMatches(currentFix, line.timestamp)
                   THEN << [ currentFix[1] EXCEPT
                               !.timestamp = @ + ALIGN_MILLISECONDS_IN_SECOND,
                               !.timeOffset = <<UpdatedTimeOffset(line)>> ] >>
                   ELSE currentFix ]
      [] line.kind = "sampleRate" ->
             IF SampleRateLineMatches(currentFix, line.timestamp)
             THEN [ fixes |-> Append(fixes,
                        [ currentFix[1] EXCEPT
                            !.sampleRate = <<MILLIHERTZ_IN_HERTZ * line.hertz + line.millihertz>> ]),
                    currentFix |-> Null ]
             ELSE [ fixes |-> fixes, currentFix |-> currentFix ]
      [] OTHER -> [ fixes |-> fixes, currentFix |-> currentFix ]

\* resultsSorter: the order of fixes.sort and recordings.sort (a stable sort
\* by timestamp), as an insertion of one element into a sorted list
RECURSIVE InsertByTimestamp(_, _)
InsertByTimestamp(sorted, x) ==
    IF sorted = <<>> THEN <<x>>
    ELSE IF sorted[Len(sorted)].timestamp <= x.timestamp THEN Append(sorted, x)
    ELSE Append(InsertByTimestamp(SubSeq(sorted, 1, Len(sorted) - 1), x), sorted[Len(sorted)])

RECURSIVE SortByTimestamp(_)
SortByTimestamp(list) ==
    IF list = <<>> THEN <<>>
    ELSE InsertByTimestamp(SortByTimestamp(SubSeq(list, 1, Len(list) - 1)), list[Len(list)])

\* The decimal digits of a number, the text that Array.prototype.sort
\* compares when it is given no comparison function
RECURSIVE Digits(_)
Digits(n) == IF n < 10 THEN <<n>> ELSE Append(Digits(n \div 10), n % 10)

RECURSIVE TextBefore(_, _)
TextBefore(a, b) ==
    IF a = <<>> THEN b # <<>>
    ELSE IF b = <<>> THEN FALSE
    ELSE IF Head(a) # Head(b) THEN Head(a) < Head(b)
    ELSE TextBefore(Tail(a), Tail(b))

\* sampleRates.sort() of initialise
RECURSIVE SortAsText(_)
SortAsText(list) ==
    IF list = <<>> THEN <<>>
    ELSE LET x == list[Len(list)]
             rest == SortAsText(SubSeq(list, 1, Len(list) - 1))
             before == SelectSeq(rest, LAMBDA y : ~TextBefore(Digits(x), Digits(y)))
             after == SelectSeq(rest, LAMBDA y : TextBefore(Digits(x), Digits(y)))
         IN before \o <<x>> \o after

\* medianSampleRate of initialise
MedianSampleRate(fixes) ==
    SortAsText([ i \in 1..Len(fixes) |-> fixes[i].sampleRate[1] ] \o <<>>)[Len(fixes) \div 2 + 1]

\* An exception that leaves the entry point instead of an outcome value
Exception == "exception"

Success == "success"

\* fixes[index] of JavaScript: undefined (null here) outside the list
FixAt(fixes, index) ==
    IF index \in 0..(Len(fixes) - 1) THEN <<fixes[index + 1]>> ELSE Null

\* while (timestamp > fixes[index].timestamp) index += 1
RECURSIVE IndexAfter(_, _, _)
IndexAfter(fixes, timestamp, index) ==
    IF timestamp > fixes[index + 1].timestamp
    THEN IndexAfter(fixes, timestamp, index + 1)
    ELSE index

\* 1 / MAXIMUM_SAMPLE_RATE_DIVERGENCE_RATIO_FROM_MEDIAN
SAMPLE_RATE_DIVERGENCE_DIVISOR == 48000000 \div 400

MAXIMUM_SAMPLE_RATE_ERROR_FROM_WAV_FILE == 100 * MILLIHERTZ_IN_HERTZ

\* sampleRateError > MAXIMUM_SAMPLE_RATE_DIVERGENCE_RATIO_FROM_MEDIAN * medianSampleRate
DivergesFromMedian(sampleRateError, medianSampleRate) ==
    sampleRateError > medianSampleRate \div SAMPLE_RATE_DIVERGENCE_DIVISOR

\* The result of align that stops at a check: no fixes used, no sample rates
\* chosen, no recording
AlignStops(error) == [ res |-> error, used |-> <<>>, rates |-> <<>>, recording |-> Null ]

\* The error compared with a limit of 100 mHz
SampleRateErrorOverHundredMillihertz(sampleRateError) ==
    sampleRateError > MAXIMUM_SAMPLE_RATE_ERROR_FROM_WAV_FILE \div MILLIHERTZ_IN_HERTZ

\* sampleRateError > MAXIMUM_SAMPLE_RATE_ERROR_FROM_WAV_FILE
SampleRateErrorTooLarge(sampleRateError) ==
    sampleRateError > MAXIMUM_SAMPLE_RATE_ERROR_FROM_WAV_FILE

\* The recording of align from the sample rates it has settled on, or the
\* failure of the check against the sample rate of the WAV file
AlignRecording(call, used, timeOffset, sampleRateStart, sampleRateEnd, calculation, sampleRateError) ==
    IF SampleRateErrorTooLarge(sampleRateError)
    THEN [ res |-> "Sample rate does not match expected sample rate.", used |-> used,
           rates |-> <<sampleRateStart, sampleRateEnd>>, recording |-> Null ]
    ELSE [ res |-> IF call.write = "fails" THEN Exception ELSE Success,
           used |-> used,
           rates |-> <<sampleRateStart, sampleRateEnd>>,
           recording |-> << [ event |-> RECORD_IDENTIFIER, timestamp |-> call.timestamp,
                              timeOffset |-> timeOffset, sampleRateStart |-> sampleRateStart,
                              sampleRateEnd |-> sampleRateEnd,
                              sampleRateCalculation |-> calculation ] >> ]

\* A recording after the last fix, when files outside the fixes are processed
AlignAfterLastFix(fixes, medianSampleRate, call) ==
    LET lastFix == fixes[Len(fixes)]
        previous == FixAt(fixes, Len(fixes) - 2)
        wavRate == call.sampleRate * MILLIHERTZ_IN_HERTZ
    IN IF previous = Null THEN AlignStops(Exception)
       ELSE LET span == lastFix.timestamp - previous[1].timestamp
                timeOffset == IF span = 0 THEN Null
                              ELSE << RoundDiv(lastFix.timeOffset[1] * (call.timestamp - lastFix.timestamp), span) >>
                used == << previous[1], lastFix >>
            IN IF DivergesFromMedian(Abs(lastFix.sampleRate[1] - medianSampleRate), medianSampleRate)
               THEN AlignRecording(call, used, timeOffset, medianSampleRate, medianSampleRate,
                                   "MEDIAN", Abs(medianSampleRate - wavRate))
               ELSE AlignRecording(call, used, timeOffset, lastFix.sampleRate[1], lastFix.sampleRate[1],
                                   "INTERPOLATION", Abs(lastFix.sampleRate[1] - wavRate))

\* A recording that is neither before the first fix nor after the last one
AlignBetweenFixes(fixes, medianSampleRate, call) ==
    LET index == IndexAfter(fixes, call.timestamp, 0)
        after == FixAt(fixes, index)
        before == FixAt(fixes, index - 1)
        wavRate == call.sampleRate * MILLIHERTZ_IN_HERTZ
    IN IF before = Null THEN AlignStops(Exception)
       ELSE IF call.timestamp = before[1].timestamp \/ call.timestamp = after[1].timestamp
       THEN AlignStops("Recording has the same time as a GPS fix.")
       ELSE LET fixBefore == before[1]
                fixAfter == after[1]
                span == fixAfter.timestamp - fixBefore.timestamp
                elapsed == call.timestamp - fixBefore.timestamp
                timeOffset == << RoundDiv(fixAfter.timeOffset[1] * elapsed, span) >>
                sampleRateError == Max(Abs(fixBefore.sampleRate[1] - medianSampleRate),
                                       Abs(fixAfter.sampleRate[1] - medianSampleRate))
                change == fixAfter.sampleRate[1] - fixBefore.sampleRate[1]
                sampleRateStart == fixBefore.sampleRate[1] + RoundDiv(change * elapsed, span)
                sampleRateEnd == fixBefore.sampleRate[1]
                                     + RoundDiv(change * (elapsed + call.duration * ALIGN_MILLISECONDS_IN_SECOND), span)
            IN IF DivergesFromMedian(sampleRateError, medianSampleRate)
               THEN AlignRecording(call, <<fixBefore, fixAfter>>, timeOffset, medianSampleRate,
                                   medianSampleRate, "MEDIAN", Abs(medianSampleRate - wavRate))
               ELSE AlignRecording(call, <<fixBefore, fixAfter>>, timeOffset, sampleRateStart,
                                   sampleRateEnd, "INTERPOLATION",
                                   Max(Abs(sampleRateStart - wavRate), Abs(sampleRateEnd - wavRate)))

\* align: the outcome, the fixes used and the recording added to recordings
align(fixes, medianSampleRate, call) ==
    IF call.input = "missing" THEN AlignStops("Could not open input WAV file.")
    ELSE IF call.destination = "missing" THEN AlignStops(Exception)
    ELSE IF call.destination = "file" THEN AlignStops("Destination path is not a directory.")
    ELSE IF FixAt(fixes, 0) = Null THEN AlignStops(Exception)
    ELSE IF call.timestamp < fixes[1].timestamp
    THEN AlignStops("Recording is before first GPS fix. No correction possible.")
    ELSE IF call.timestamp > fixes[Len(fixes)].timestamp
    THEN IF call.onlyProcessFilesBetweenFixes
         THEN AlignStops("Recording is after last GPS fix.")
         ELSE AlignAfterLastFix(fixes, medianSampleRate, call)
    ELSE AlignBetweenFixes(fixes, medianSampleRate, call)

\* No recording is held back for the next fix
RecordingStaysWithFix(currentRecording, nextFix) == FALSE

\* currentRecording.timestamp > nextFix.timestamp
RecordingIsAfter(currentRecording, nextFix) ==
    currentRecording.timestamp > nextFix.timestamp

\* The rows of GPS.CSV after the heading: every fix in turn, each followed
\* by the sorted recordings not yet written that are not after the next fix
RECURSIVE FinaliseRows(_, _, _, _, _)
FinaliseRows(fixes, sortedRecordings, fixIndex, recordingIndex, fixWritten) ==
    IF fixIndex >= Len(fixes) THEN <<>>
    ELSE IF ~fixWritten
    THEN <<fixes[fixIndex + 1]>>
             \o FinaliseRows(fixes, sortedRecordings, fixIndex, recordingIndex, TRUE)
    ELSE IF /\ recordingIndex < Len(sortedRecordings)
            /\ ~(/\ fixIndex < Len(fixes) - 1
                 /\ RecordingIsAfter(sortedRecordings[recordingIndex + 1], fixes[fixIndex + 2]))
    THEN <<sortedRecordings[recordingIndex + 1]>>
             \o FinaliseRows(fixes, sortedRecordings, fixIndex, recordingIndex + 1, TRUE)
    ELSE FinaliseRows(fixes, sortedRecordings, fixIndex + 1, recordingIndex, FALSE)

\* The arguments of one call of align with the WAV file and the folders it
\* finds: the UTC timestamp and sample rate of the recording, its duration in
\* seconds, and whether the input opens, what the destination is and whether
\* writing the output works
AlignCall(timestamp, only, sampleRate, input, destination, write) ==
    [ timestamp |-> timestamp, onlyProcessFilesBetweenFixes |-> only, sampleRate |-> sampleRate,
      duration |-> 1, input |-> input, destination |-> destination, write |-> write ]

AlignTimestamps == {500, 1000, 1500, 2000, 2500}

AlignCalls ==
    { AlignCall(t, o, 48000, "ok", "directory", "ok") : t \in AlignTimestamps, o \in BOOLEAN }
    \cup { AlignCall(1500, TRUE, 47000, "ok", "directory", "ok"),
           AlignCall(1500, TRUE, 48000, "missing", "directory", "ok"),
           AlignCall(1500, TRUE, 48000, "ok", "missing", "ok"),
           AlignCall(1500, TRUE, 48000, "ok", "file", "ok"),
           AlignCall(1500, TRUE, 48000, "ok", "directory", "fails") }

NoCsv == [ written |-> FALSE, rows |-> <<>> ]

\* The fixes and the pending fix of the module when it is loaded
NoFixes == [ fixes |-> <<>>, currentFix |-> Null ]

\* The module after it is loaded: no fixes, no recordings, no pending fix
InitAlign ==
    /\ op = "align"
    /\ pc = "idle"
    /\ inp = [ line |-> Null, call |-> Null ]
    /\ loc = [ fixes |-> <<>>, recordings |-> <<>>, currentFix |-> Null, medianSampleRate |-> 0,
               lines |-> 0, calls |-> 0, used |-> <<>>, rates |-> <<>>, initialised |-> FALSE,
               received |-> Null, fresh |-> NoFixes ]
    /\ out = NoCsv
    /\ res = "none"

\* initialise up to the loop over the lines: a GPS.TXT file that does not
\* open or is empty leaves the lists as they are
AlignInitialise ==
    /\ op = "align"
    /\ pc = "idle"
    /\ loc.calls < MaxAlignCalls
    /\ \E file \in {"missing", "empty", "ok"} :
           /\ pc' = IF file = "ok" THEN "lines" ELSE "idle"
           /\ loc' = IF file = "ok"
                     THEN [ loc EXCEPT !.fixes = <<>>, !.recordings = <<>>,
                                       !.calls = @ + 1, !.used = <<>>, !.rates = <<>>,
                                       !.initialised = FALSE, !.fresh = NoFixes ]
                     ELSE [ loc EXCEPT !.calls = @ + 1, !.used = <<>>, !.rates = <<>> ]
           /\ res' = CASE file = "missing" -> "Could not open the GPS.TXT file."
                       [] file = "empty" -> "The GPS.TXT file has zero size."
                       [] OTHER -> "none"
    /\ inp' = [ line |-> Null, call |-> Null ]
    /\ UNCHANGED <<op, out>>

\* One line of GPS.TXT goes through processLine; loc.received keeps the time
\* reported by the GPS-fix line of the pending fix, and loc.fresh what the
\* lines of this file so far give in a module that has processed no other
\* file, until the file is closed
AlignProcessLine ==
    /\ op = "align"
    /\ pc = "lines"
    /\ loc.lines < MaxGpsLines
    /\ \E line \in GpsLines :
           LET after == processLine(loc.fixes, loc.currentFix, line)
           IN /\ loc' = [ loc EXCEPT !.fixes = after.fixes, !.currentFix = after.currentFix,
                                     !.lines = @ + 1,
                                     !.fresh = processLine(loc.fresh.fixes, loc.fresh.currentFix, line),
                                     !.received = IF line.kind = "fix" THEN <<line.timestamp>>
                                                  ELSE IF after.currentFix = Null THEN Null
                                                  ELSE @ ]
              /\ inp' = [ inp EXCEPT !.line = <<line>> ]
    /\ UNCHANGED <<op, pc, out, res>>

\* Reading GPS.TXT fails part of the way through the file
AlignReadFails ==
    /\ op = "align"
    /\ pc = "lines"
    /\ pc' = "idle"
    /\ res' = "Something went wrong parsing the GPS.TXT file."
    /\ inp' = [ inp EXCEPT !.line = Null ]
    /\ loc' = [ loc EXCEPT !.fresh = NoFixes ]
    /\ UNCHANGED <<op, out>>

\* The end of GPS.TXT (a file of one unfinished line has no line to process):
\* initialise fails with fewer than two fixes, or else sorts the fixes and
\* takes the median sample rate
AlignInitialiseReturn ==
    /\ op = "align"
    /\ pc = "lines"
    /\ pc' = "idle"
    /\ inp' = [ inp EXCEPT !.line = Null ]
    /\ IF Len(loc.fixes) < 2
       THEN /\ res' = "Insufficient fixes within the GPS.TXT file to estimate clock drift."
            /\ loc' = [ loc EXCEPT !.fresh = NoFixes ]
       ELSE /\ res' = Success
            /\ loc' = [ loc EXCEPT !.fixes = SortByTimestamp(loc.fixes),
                                   !.medianSampleRate = MedianSampleRate(loc.fixes),
                                   !.initialised = TRUE,
                                   !.fresh = NoFixes ]
    /\ UNCHANGED <<op, out>>

\* One call of align
Align ==
    /\ op = "align"
    /\ pc = "idle"
    /\ loc.calls < MaxAlignCalls
    /\ \E call \in AlignCalls :
           LET result == align(loc.fixes, loc.medianSampleRate, call)
           IN /\ inp' = [ line |-> Null, call |-> <<call>> ]
              /\ res' = result.res
              /\ loc' = [ loc EXCEPT !.recordings = @ \o result.recording,
                                     !.used = result.used, !.rates = result.rates,
                                     !.calls = @ + 1 ]
    /\ UNCHANGED <<op, pc, out>>

\* finalise: sorts the recordings and writes GPS.CSV into the destination
AlignFinalise ==
    /\ op = "align"
    /\ pc = "idle"
    /\ loc.calls < MaxAlignCalls
    /\ \E destination \in {"directory", "file", "missing"} :
           LET sortedRecordings == SortByTimestamp(loc.recordings)
           IN /\ loc' = [ loc EXCEPT !.recordings = sortedRecordings, !.used = <<>>, !.rates = <<>>,
                                     !.calls = @ + 1 ]
              /\ res' = CASE destination = "file" -> "Destination path for GPS.CSV is not a directory."
                          [] destination = "missing" -> "An error occurred while writing the GPS.CSV  file."
                          [] OTHER -> Success
              /\ out' = IF destination = "directory"
                        THEN [ written |-> TRUE,
                               rows |-> FinaliseRows(loc.fixes, sortedRecordings, 0, 0, FALSE) ]
                        ELSE out
    /\ inp' = [ line |-> Null, call |-> Null ]
    /\ UNCHANGED <<op, pc>>

NextAlign ==
    \/ AlignInitialise
    \/ AlignProcessLine
    \/ AlignReadFails
    \/ AlignInitialiseReturn
    \/ Align
    \/ AlignFinalise

SpecAlign == InitAlign /\ [][NextAlign]_vars

(***************************************************************************)
(* Claims about align                                                      *)
(***************************************************************************)

\* The step is processLine on one line of GPS.TXT
LineStep == pc = "lines" /\ pc' = "lines" /\ inp'.line # Null

OutcomeLineKinds == {"set", "notUpdated", "updated"}

\* The pending fix has a time offset: a time outcome line has matched it
\* since the last GPS-fix line
PendingHasOffset(currentFix) == currentFix # Null /\ currentFix[1].timeOffset # Null

C11_CommitStep ==
    LET line == inp'.line[1]
        pending == loc.currentFix
    IN /\ Len(loc'.fixes) > Len(loc.fixes) =>
              /\ LineStep
              /\ line.kind = "sampleRate"
              /\ PendingHasOffset(pending)
              /\ line.timestamp = pending[1].timestamp
              /\ loc'.fixes = Append(loc.fixes,
                     [ pending[1] EXCEPT !.sampleRate = <<1000 * line.hertz + line.millihertz>> ])
              /\ loc'.currentFix = Null
       /\ (PendingHasOffset(loc'.currentFix) /\ loc'.currentFix # pending) =>
              /\ LineStep
              /\ line.kind \in OutcomeLineKinds
              /\ pending # Null
              /\ line.timestamp = pending[1].timestamp + 1000
              /\ loc'.currentFix[1].timestamp = line.timestamp
       /\ (LineStep /\ line.kind = "fix") =>
              /\ loc'.currentFix # Null
              /\ loc'.currentFix[1].timeOffset = Null
              /\ loc'.currentFix[1].timestamp = line.timestamp
       /\ (loc'.currentFix # Null /\ pending = Null) => (LineStep /\ line.kind = "fix")
       /\ ~LineStep => loc'.currentFix = pending

\* C11: a fix is appended to the list of fixes only by a sample rate line
\* whose timestamp equals the time of the pending fix, and only when the
\* pending fix has a time offset; the pending fix gets or changes its time
\* offset only by a time outcome line (time set, not updated or updated)
\* stamped exactly 1000 ms after the pending time, which advances the pending
\* time to the stamp of that line; a GPS-fix line clears the time offset, so
\* no GPS-fix line lies between the outcome line and the commit; the commit
\* leaves no pending fix and only a GPS-fix line creates one, so one GPS-fix
\* line yields at most one committed fix.
C11_FixCommittedOnlyAfterOutcome == [][C11_CommitStep]_vars

\* Two fixes are committed, the second one by the sample rate line at 2000 ms
\* after a 'Time was updated' line
C11_Witness ==
    /\ op = "align"
    /\ pc = "lines"
    /\ inp.line # Null
    /\ inp.line[1].kind = "sampleRate"
    /\ loc.currentFix = Null
    /\ Len(loc.fixes) = 2
    /\ loc.fixes[2].timestamp = inp.line[1].timestamp
    /\ loc.fixes[2].timeOffset = <<-35>>
    /\ loc.fixes[2].sampleRate = <<48000300>>

\* align has just returned from a call that found its input file and its
\* destination folder, after an initialise that succeeded
AlignedAfterInitialise ==
    /\ op = "align"
    /\ pc = "idle"
    /\ inp.call # Null
    /\ inp.call[1].input = "ok"
    /\ inp.call[1].destination = "directory"
    /\ loc.initialised

\* The outcomes of align that are a failure value
AlignFailures ==
    { "Recording is before first GPS fix. No correction possible.",
      "Recording is after last GPS fix.",
      "Recording has the same time as a GPS fix.",
      "Sample rate does not match expected sample rate." }

EqualsAFix(timestamp) == \E i \in 1..Len(loc.fixes) : loc.fixes[i].timestamp = timestamp

\* C12: after a successful initialise, align returns a failure outcome when
\* the timestamp of the recording is before the first fix, when it is after
\* the last fix and onlyProcessFilesBetweenFixes is true, and when it equals
\* the timestamp of a fix (the first and the last included); a recording
\* between the first and the last fix that equals none of them is bracketed
\* by the two fixes used: fixBefore.timestamp < timestamp < fixAfter.timestamp.
C12_FailsOutsideOrOnAFix ==
    AlignedAfterInitialise =>
        LET call == inp.call[1]
            first == loc.fixes[1].timestamp
            last == loc.fixes[Len(loc.fixes)].timestamp
        IN /\ (\/ call.timestamp < first
               \/ (call.timestamp > last /\ call.onlyProcessFilesBetweenFixes)
               \/ EqualsAFix(call.timestamp)) => res \in AlignFailures
           /\ (first < call.timestamp /\ call.timestamp < last /\ ~EqualsAFix(call.timestamp)) =>
                  /\ Len(loc.used) = 2
                  /\ loc.used[1].timestamp < call.timestamp
                  /\ call.timestamp < loc.used[2].timestamp

MaxSummariserCalls == 4

\* The files given to summarise: a name that matches no AudioMoth filename,
\* a file that does not open, an empty file, a file whose header cannot be
\* read or is not a WAV header, and a recording
SummaryFileStates == {"invalidName", "unopenable", "empty", "unreadable", "badHeader", "ok"}

SummaryNames == { <<0, 1>>, <<0, 2>>, <<1, 1>> }

SummaryFiles ==
    { [ folder |-> n[1], filename |-> n[2], state |-> st,
        fileSize |-> IF st = "empty" THEN 0 ELSE 1 ] : n \in SummaryNames, st \in SummaryFileStates }

\* summarise returns true
SummariseReturns(file) == file.state \notin {"invalidName", "unopenable"}

\* The row of a file that summarise gives no row when its size is zero
SummariseRowSkipsEmpty(file) ==
    IF ~SummariseReturns(file) \/ file.state = "empty" THEN Null
    ELSE << [ filename |-> file.filename, folder |-> file.folder, fileSize |-> file.fileSize,
              details |-> file.state = "ok" ] >>

\* addResult as summarise calls it: the row with the name, the folder and the
\* size only for an empty file and a file without a readable WAV header, the
\* row with all the details of the recording otherwise, and no row for a
\* name that is not valid or a file that does not open
SummariseRow(file) ==
    IF ~SummariseReturns(file) THEN Null
    ELSE << [ filename |-> file.filename, folder |-> file.folder, fileSize |-> file.fileSize,
              details |-> file.state = "ok" ] >>

\* The comparison function of results.sort in finalise is positive
ResultAfter(a, b) ==
    \/ a.folder > b.folder
    \/ (a.folder = b.folder /\ a.filename > b.filename)

RECURSIVE InsertResult(_, _)
InsertResult(sorted, x) ==
    IF sorted = <<>> THEN <<x>>
    ELSE IF ~ResultAfter(sorted[Len(sorted)], x) THEN Append(sorted, x)
    ELSE Append(InsertResult(SubSeq(sorted, 1, Len(sorted) - 1), x), sorted[Len(sorted)])

\* results.sort(...): a stable sort by folder and then by filename
RECURSIVE SortResults(_)
SortResults(list) ==
    IF list = <<>> THEN <<>>
    ELSE InsertResult(SortResults(SubSeq(list, 1, Len(list) - 1)), list[Len(list)])

\* SUMMARY.CSV after opening it for appending and writing the rows
FinaliseFileAppends(previous, rows) == previous \o rows

\* SUMMARY.CSV after fs.openSync(..., 'w') and the writes of the rows: what
\* the file held before is gone
FinaliseFile(previous, rows) == rows

InitSummarise ==
    /\ op = "summarise"
    /\ pc = "idle"
    /\ inp = [ call |-> "none", file |-> Null ]
    /\ loc = [ results |-> <<>>, returned |-> <<>>, finalises |-> 0, calls |-> 0 ]
    /\ out = NoCsv
    /\ res = "none"

SummariserInitialise ==
    /\ op = "summarise"
    /\ loc.calls < MaxSummariserCalls
    /\ inp' = [ call |-> "initialise", file |-> Null ]
    /\ loc' = [ results |-> <<>>, returned |-> <<>>, finalises |-> 0, calls |-> loc.calls + 1 ]
    /\ res' = "none"
    /\ UNCHANGED <<op, pc, out>>

Summarise ==
    /\ op = "summarise"
    /\ loc.calls < MaxSummariserCalls
    /\ \E file \in SummaryFiles :
           /\ inp' = [ call |-> "summarise", file |-> <<file>> ]
           /\ loc' = [ loc EXCEPT !.results = @ \o SummariseRow(file),
                                  !.returned = IF SummariseReturns(file)
                                               THEN Append(@, [ filename |-> file.filename,
                                                                folder |-> file.folder,
                                                                fileSize |-> file.fileSize,
                                                                details |-> file.state = "ok" ])
                                               ELSE @,
                                  !.calls = @ + 1 ]
           /\ res' = IF SummariseReturns(file) THEN "true" ELSE "false"
    /\ UNCHANGED <<op, pc, out>>

\* finalise: sorts the results in place, then fails on a destination that is
\* missing or is no folder, or writes the file, where a write may fail after
\* some of the rows
SummariserFinalise ==
    /\ op = "summarise"
    /\ loc.calls < MaxSummariserCalls
    /\ LET sortedResults == SortResults(loc.results)
       IN \E destination \in {"directory", "file", "missing"}, written \in 0..Len(loc.results) :
              /\ (destination # "directory") => written = 0
              /\ inp' = [ call |-> "finalise", file |-> Null ]
              /\ loc' = [ loc EXCEPT !.results = sortedResults,
                                     !.finalises = IF destination = "directory" /\ written = Len(loc.results)
                                                   THEN @ + 1 ELSE @,
                                     !.calls = @ + 1 ]
              /\ res' = CASE destination = "file" -> "Destination path is not a directory."
                          [] destination = "missing" \/ written < Len(loc.results) ->
                                 "An error occurred while writing the output file."
                          [] OTHER -> Success
              /\ out' = IF destination = "directory"
                        THEN [ written |-> TRUE,
                               rows |-> FinaliseFile(out.rows, SubSeq(sortedResults, 1, written)) ]
                        ELSE out
    /\ UNCHANGED <<op, pc>>

NextSummarise ==
    \/ SummariserInitialise
    \/ Summarise
    \/ SummariserFinalise

SpecSummarise == InitSummarise /\ [][NextSummarise]_vars

(***************************************************************************)
(* Claims about the summariser                                             *)
(***************************************************************************)

\* finalise has just returned success
FinaliseSucceeded ==
    /\ op = "summarise"
    /\ inp.call = "finalise"
    /\ res = Success

CountIn(list, x) == Cardinality({ i \in DOMAIN list : list[i] = x })

Ascending(rows) ==
    \A i \in 1..(Len(rows) - 1) : ~ResultAfter(rows[i], rows[i + 1])

\* C13: the rows that a successful finalise writes are exactly the rows of
\* the summarise calls that returned true since the most recent initialise,
\* one row per such call (empty files and files without a readable header
\* included) and none for the calls that returned false, in ascending order
\* of folder and then filename.
C13_FinaliseWritesReturnedRows ==
    FinaliseSucceeded =>
        /\ Len(out.rows) = Len(loc.returned)
        /\ \A i \in DOMAIN loc.returned :
               CountIn(out.rows, loc.returned[i]) = CountIn(loc.returned, loc.returned[i])
        /\ Ascending(out.rows)

\* Two rows added out of order, the first one for an empty file in the later
\* folder, and the file written with the two rows in ascending order
C13_Witness ==
    /\ FinaliseSucceeded
    /\ Len(loc.returned) = 2
    /\ ResultAfter(loc.returned[1], loc.returned[2])
    /\ loc.returned[1].folder # loc.returned[2].folder
    /\ loc.returned[1].fileSize = 0
    /\ out.rows = << loc.returned[2], loc.returned[1] >>

\* The second finalise in a row has just succeeded with rows to write
SecondFinalise ==
    /\ FinaliseSucceeded
    /\ loc.finalises >= 2
    /\ loc.returned # <<>>

\* C14 as stated: after finalise has run twice without an initialise in
\* between, SUMMARY.CSV holds duplicated rows, that is, some row more often
\* than summarise calls have produced it.
C14_SecondFinaliseDuplicates ==
    SecondFinalise =>
        \E i \in DOMAIN out.rows :
            CountIn(out.rows, out.rows[i]) > CountIn(loc.returned, out.rows[i])

\* C14 amended: after finalise has run twice without an initialise in
\* between, SUMMARY.CSV holds every row exactly as often as summarise calls
\* have produced it: the second run replaces the file and duplicates nothing.
C14_SecondFinaliseRewrites ==
    SecondFinalise =>
        /\ Len(out.rows) = Len(loc.returned)
        /\ \A i \in DOMAIN out.rows :
               CountIn(out.rows, out.rows[i]) = CountIn(loc.returned, out.rows[i])

\* Two different rows, and the file of the second finalise holds two rows
C14_Witness ==
    /\ SecondFinalise
    /\ Len(loc.returned) = 2
    /\ loc.returned[1] # loc.returned[2]
    /\ Len(out.rows) = 2

(***************************************************************************)
(* Claims about the progress callback                                      *)
(***************************************************************************)

\* C16: every value passed to the progress callback is an integer in 0..100,
\* the sequence of values is strictly increasing (no value is reported twice
\* and none goes backwards), and on a successful run the value 100 is
\* delivered exactly once, as the last call.  Here for split.
C16_ProgressStrictlyIncreasing ==
    (op = "split") =>
        /\ \A k \in DOMAIN loc.reported : loc.reported[k] \in 0..100
        /\ \A k \in 1..(Len(loc.reported) - 1) : loc.reported[k] < loc.reported[k + 1]
        /\ (pc = "done" /\ res = "success") =>
               /\ loc.reported # <<>>
               /\ loc.reported[Len(loc.reported)] = 100
               /\ CountIn(loc.reported, 100) = 1

(***************************************************************************)
(* Claims about the files and the arguments of split                       *)
(***************************************************************************)

\* The files of a split into several chunks: file k carries the comment
\* 'Split from <basename> as file i of N.' with <<i, N>> = out[k].comment
SplitIntoSeveral == op = "split" /\ Len(loc.outputFileList) > 1

\* C17 as stated: when split produces N > 1 chunks, the file whose comment
\* reads 'file i of N' has the filename timestamp
\* originalTimestamp + i x maximumFileDuration x 1000 ms.
C17_FileTimestampCountsFromOne ==
    SplitIntoSeveral =>
        \A k \in DOMAIN out :
            out[k].timestamp
                = inp.originalTimestamp + out[k].comment[1] * inp.maximumFileDuration * 1000

\* C17 amended: when split produces N > 1 chunks, the file whose comment reads
\* 'file i of N' has the filename timestamp
\* originalTimestamp + (i - 1) x maximumFileDuration x 1000 ms, and the
\* comments number the files 1..N in the order they are written.
C17_FileTimestampCountsFromZero ==
    SplitIntoSeveral =>
        \A k \in DOMAIN out :
            /\ out[k].comment = <<k, Len(loc.outputFileList)>>
            /\ out[k].timestamp
                   = inp.originalTimestamp + (out[k].comment[1] - 1) * inp.maximumFileDuration * 1000

\* A finished split into three files from a recording that does not start at 0
C17_Witness ==
    /\ SplitIntoSeveral
    /\ res = "success"
    /\ Len(out) = 3
    /\ inp.originalTimestamp = 7000
    /\ inp.maximumFileDuration = 2
    /\ out[3].comment = <<3, 3>>
    /\ out[3].timestamp = 11000

\* C18: split returns an invalid-argument failure, and creates no output
\* file, whenever maximumFileDuration is 0, is negative or is not an integer.
C18_BadDurationFails ==
    (/\ op = "split"
     /\ pc # "check" \/ res # "none"
     /\ inp.argument # Null
     /\ inp.argument[1] <= 0 \/ inp.argument[1] % 10 # 0) =>
        /\ res \in { "Maximum file duration must be an integer.",
                     "Maximum file duration must be greater than zero." }
        /\ out = <<>>

(***************************************************************************)
(* Claims about the output files and the segments of expand                *)
(***************************************************************************)

\* The list of output files of a DURATION expansion is complete
DurationPlanned ==
    /\ op = "expand"
    /\ inp.expansionType = "DURATION"
    /\ pc \in {"open", "done"}

\* The consecutive slices of maximumFileDuration seconds of the reconstructed
\* timeline, counted from 0; the last one may be shorter
SliceLength == inp.maximumFileDuration * ExpandBytesPerSecond

SliceCount == CeilDiv(loc.totalOutputBytes, SliceLength)

Slice(k) == [ offset |-> k * SliceLength,
              length |-> Min(SliceLength, loc.totalOutputBytes - k * SliceLength) ]

SliceHasAudio(k) ==
    \E p \in Slice(k).offset..(Slice(k).offset + Slice(k).length - 1) :
        loc.fileSummary[SegmentAt(loc.fileSummary, p)].type = "AUDIO"

SliceIsFile(k) ==
    \E j \in DOMAIN loc.outputFileList :
        /\ loc.outputFileList[j].offset = Slice(k).offset
        /\ loc.outputFileList[j].length = Slice(k).length

FilesAreSlices ==
    \A j \in DOMAIN loc.outputFileList :
        \E k \in 0..(SliceCount - 1) :
            /\ loc.outputFileList[j].offset = Slice(k).offset
            /\ loc.outputFileList[j].length = Slice(k).length
            /\ loc.outputFileList[j].timestamp
                   = inp.originalTimestamp + k * inp.maximumFileDuration * MILLISECONDS_IN_SECONDS

\* C19 as stated: in DURATION expansion the output files are slices of
\* maximumFileDuration seconds of the timeline (the last may be shorter), and
\* a slice becomes an output file if and only if it intersects an AUDIO
\* segment, or generateSilentFiles is set, or the slice itself spans a full
\* day.
C19_SliceFileIffAudioOrFullDay ==
    DurationPlanned =>
        /\ FilesAreSlices
        /\ \A k \in 0..(SliceCount - 1) :
               SliceIsFile(k) <=> \/ SliceHasAudio(k)
                                  \/ inp.generateSilentFiles
                                  \/ Slice(k).length = SECONDS_IN_DAY * ExpandBytesPerSecond

\* C19 amended: ... if and only if it intersects an AUDIO segment, or
\* generateSilentFiles is set, or maximumFileDuration is one day (the
\* default), however short the slice is.
C19_SliceFileIffAudioOrDayDuration ==
    DurationPlanned =>
        /\ FilesAreSlices
        /\ \A k \in 0..(SliceCount - 1) :
               SliceIsFile(k) <=> \/ SliceHasAudio(k)
                                  \/ inp.generateSilentFiles
                                  \/ inp.maximumFileDuration = SECONDS_IN_DAY

\* Three or more slices without generateSilentFiles: one with audio that is a
\* file, one without audio that is not, and a short last slice
C19_Witness ==
    /\ DurationPlanned
    /\ ~inp.generateSilentFiles
    /\ SliceCount >= 3
    /\ Slice(SliceCount - 1).length < SliceLength
    /\ \E k \in 0..(SliceCount - 1) : SliceHasAudio(k) /\ SliceIsFile(k)
    /\ \E k \in 0..(SliceCount - 1) : ~SliceHasAudio(k) /\ ~SliceIsFile(k)

\* A full window has been classified and readEncodedBlock has not found the
\* count of a silent period in it
FullWindowNoSentinel ==
    /\ op = "decode"
    /\ pc = "done"
    /\ ~(loc.numberOfBlocks > 0)

AllSamplesZero == \A i \in DOMAIN inp.samples : inp.samples[i] = 0

SyncReachedTimestampCheck ==
    /\ op = "sync"
    /\ pc = "done"
    /\ ~ResampleRateTooLow
    /\ ~FilenameRejected
    /\ ~TooFewRows

\* The time string of the file name and the time of the first row differ by
\* more than 500 ms
EncodedTimestampDiffers ==
    DifferenceTooLarge(FileTimestampOfMatch(inp.filename), TimestringDate(inp.commentTimestring),
                       inp.rows[1].AUDIOMOTH_TIME)

TimestampMismatch == "Input CSV file timestamp does not match input WAV file."

\* C21: for every accepted file name, with or without a device ID before the
\* time string, sync returns the failure of the timestamp mismatch when the
\* time of the file name and AUDIOMOTH_TIME of the first row differ by more
\* than 500 ms.
C21_TimestampMismatchFails ==
    (SyncReachedTimestampCheck /\ EncodedTimestampDiffers) => res = TimestampMismatch

\* The size of the output WAV file: its header, the data written and the
\* GUANO chunk after them
SyncOutputFileSize ==
    inp.headerSize + out.wavBytes + (IF out.guano THEN inp.guanoSize ELSE 0)

\* C22: sync creates no output WAV whose size (header, resampled data and
\* trailing GUANO chunk) exceeds UINT32_MAX: such a request fails before the
\* output file is opened.
C22_OutputWithinMaximumSize ==
    (op = "sync" /\ pc = "done" /\ out.wavOpened) => SyncOutputFileSize <= SYNC_UINT32_MAX

(***************************************************************************)
(* align (aligner.js): the samples of the output file.  A run starts where *)
(* align has opened the output file and written its header, with the time  *)
(* offset and the sample rates it has chosen.  The rates are scaled to a   *)
(* few Hz; the offsets of the input and output samples, doubles in the     *)
(* source, are exact fractions [n, d] with d > 0.  out is the sequence of  *)
(* the samples passed to writeSampleValue.  The runs keep the same sample  *)
(* rate at the start and at the end of the recording.                      *)
(***************************************************************************)
\* 1 / SAMPLE_RATE_CORRECTION (2 / 48000000 in the source)
SAMPLE_RATE_CORRECTION_DIVISOR == 48000000 \div 2

\* Model bound: the samples of the input file
MaxAlignSamples == 4

AlignSampleValues == {-1, 0, 2}

AlignSampleRates == {2, 4}

\* Time offsets, in tenths of a millisecond, of zero, a half, one, two and
\* ten samples at 4 Hz
AlignTimeOffsets == {0, 1250, -1250, 2500, -2500, 5000, -5000, 25000, -25000}

Fraction(n, d) == [n |-> n, d |-> d]

FractionAdd(x, y) ==
    LET g == greatestCommonDivider(x.d, y.d)
    IN Fraction(x.n * (y.d \div g) + y.n * (x.d \div g), (x.d \div g) * y.d)

FractionSubtract(x, y) == FractionAdd(x, Fraction(-y.n, y.d))

FractionLessOrEqual(x, y) == x.n * y.d <= y.n * x.d

\* x / y for y > 0
FractionDivide(x, y) ==
    LET g == greatestCommonDivider(x.d, y.d)
    IN Fraction(x.n * (y.d \div g), (x.d \div g) * y.n)

\* MILLIHERTZ_IN_HERTZ / inputSampleRate, in seconds, for inputSampleRate =
\* rate - rate * SAMPLE_RATE_CORRECTION and a rate in mHz
InputOffsetStep(rate) ==
    LET g1 == greatestCommonDivider(MILLIHERTZ_IN_HERTZ, rate)
        a == MILLIHERTZ_IN_HERTZ \div g1
        b == rate \div g1
        g2 == greatestCommonDivider(SAMPLE_RATE_CORRECTION_DIVISOR, b)
        g3 == greatestCommonDivider(a, SAMPLE_RATE_CORRECTION_DIVISOR - 1)
    IN Fraction((a \div g3) * (SAMPLE_RATE_CORRECTION_DIVISOR \div g2),
                (b \div g2) * ((SAMPLE_RATE_CORRECTION_DIVISOR - 1) \div g3))

\* sampleRateStart + (numberOfSamplesWritten / numberOfSamplesToWrite)
\*     * (sampleRateEnd - sampleRateStart), for rates that make it a whole number
InputSampleRate(numberOfSamplesWritten, numberOfSamplesToWrite, sampleRateStart, sampleRateEnd) ==
    sampleRateStart
        + (numberOfSamplesWritten * (sampleRateEnd - sampleRateStart)) \div numberOfSamplesToWrite

\* The number of samples to drop when the clock is fast
SamplesToDrop(timeOffset, sampleRateStart) ==
    RoundDiv((-timeOffset) * sampleRateStart,
             TIME_OFFSET_MULTIPLIER * ALIGN_MILLISECONDS_IN_SECOND * MILLIHERTZ_IN_HERTZ)

\* The number of samples to add when the clock is slow
SamplesToAdd(timeOffset, sampleRate) ==
    RoundDiv(timeOffset * sampleRate, TIME_OFFSET_MULTIPLIER * ALIGN_MILLISECONDS_IN_SECOND)

AlignWriteInputs ==
    { [ samples |-> v, timeOffset |-> t, sampleRate |-> r,
        sampleRateStart |-> r * MILLIHERTZ_IN_HERTZ, sampleRateEnd |-> r * MILLIHERTZ_IN_HERTZ ] :
      v \in UNION { [1..n -> AlignSampleValues] : n \in 0..MaxAlignSamples },
      t \in AlignTimeOffsets, r \in AlignSampleRates }

InitAlignWrite ==
    /\ op = "alignWrite"
    /\ pc = "first"
    /\ inp \in AlignWriteInputs
    /\ loc = [ progress |-> 0, numberOfSamplesRead |-> 0, numberOfSamplesWritten |-> 0,
               sampleValue |-> 0, previousSampleValue |-> 0,
               inputOffset |-> Fraction(0, 1), previousInputOffset |-> Fraction(0, 1),
               count |-> 0, dropped |-> 0, added |-> 0 ]
    /\ out = <<>>
    /\ res = "none"

AlignSamplesToRead == Len(inp.samples)

AlignSamplesToWrite == Len(inp.samples)

\* readSampleValue of align: the next sample of the input file
AlignReadSampleValue(l) ==
    [ l EXCEPT !.sampleValue = inp.samples[l.numberOfSamplesRead + 1],
               !.numberOfSamplesRead = @ + 1 ]

\* let sampleValue = numberOfSamplesToRead > 0 ? readSampleValue() : 0
AlignWriteFirst ==
    /\ op = "alignWrite" /\ pc = "first"
    /\ loc' = IF AlignSamplesToRead > 0 THEN AlignReadSampleValue(loc) ELSE loc
    /\ pc' = "offset"
    /\ UNCHANGED <<op, inp, out, res>>

\* The clock is fast: one more sample is read and dropped
AlignWriteDrop ==
    /\ op = "alignWrite" /\ pc = "offset"
    /\ inp.timeOffset < 0
    /\ loc.numberOfSamplesRead < SamplesToDrop(inp.timeOffset, inp.sampleRateStart)
    /\ loc.numberOfSamplesRead < AlignSamplesToRead
    /\ loc' = [ AlignReadSampleValue(loc) EXCEPT !.dropped = @ + 1 ]
    /\ UNCHANGED <<op, pc, inp, out, res>>

\* The clock is slow: the first sample is written once more
AlignWriteAdd ==
    /\ op = "alignWrite" /\ pc = "offset"
    /\ inp.timeOffset > 0
    /\ loc.numberOfSamplesWritten < SamplesToAdd(inp.timeOffset, inp.sampleRate)
    /\ loc.numberOfSamplesWritten < AlignSamplesToWrite
    /\ out' = Append(out, loc.sampleValue)
    /\ loc' = [ loc EXCEPT !.numberOfSamplesWritten = @ + 1, !.added = @ + 1 ]
    /\ UNCHANGED <<op, pc, inp, res>>

\* The correction of the time offset is over
AlignWriteCorrected ==
    /\ op = "alignWrite" /\ pc = "offset"
    /\ ~(/\ inp.timeOffset < 0
         /\ loc.numberOfSamplesRead < SamplesToDrop(inp.timeOffset, inp.sampleRateStart)
         /\ loc.numberOfSamplesRead < AlignSamplesToRead)
    /\ ~(/\ inp.timeOffset > 0
         /\ loc.numberOfSamplesWritten < SamplesToAdd(inp.timeOffset, inp.sampleRate)
         /\ loc.numberOfSamplesWritten < AlignSamplesToWrite)
    /\ loc' = [ loc EXCEPT !.inputOffset = Fraction(0, 1),
                           !.previousInputOffset = Fraction(0, 1),
                           !.previousSampleValue = loc.sampleValue,
                           !.count = 0 ]
    /\ pc' = "second"
    /\ UNCHANGED <<op, inp, out, res>>

\* while (inputOffset <= outputOffset): the input samples read before the
\* output sample at outputOffset
RECURSIVE ReadInputSamples(_, _, _)
ReadInputSamples(l, outputOffset, inputOffsetStep) ==
    IF FractionLessOrEqual(l.inputOffset, outputOffset)
    THEN LET read == IF l.numberOfSamplesRead < AlignSamplesToRead
                     THEN AlignReadSampleValue(l) ELSE l
         IN ReadInputSamples([ read EXCEPT !.previousInputOffset = l.inputOffset,
                                            !.previousSampleValue = l.sampleValue,
                                            !.inputOffset = FractionAdd(l.inputOffset, inputOffsetStep) ],
                             outputOffset, inputOffsetStep)
    ELSE l

\* previousSampleValue + Math.round((outputOffset - previousInputOffset)
\*     / (inputOffset - previousInputOffset) * (sampleValue - previousSampleValue))
InterpolatedSampleValue(l, outputOffset) ==
    IF l.inputOffset = l.previousInputOffset THEN l.previousSampleValue
    ELSE LET ratio == FractionDivide(FractionSubtract(outputOffset, l.previousInputOffset),
                                     FractionSubtract(l.inputOffset, l.previousInputOffset))
         IN l.previousSampleValue
                + RoundDiv(ratio.n * (l.sampleValue - l.previousSampleValue), ratio.d)

\* One output sample of the second under way
AlignWriteSample ==
    /\ op = "alignWrite" /\ pc = "second"
    /\ loc.count < inp.sampleRate
    /\ loc.numberOfSamplesWritten < AlignSamplesToWrite
    /\ LET written == loc.numberOfSamplesWritten - loc.count
           rate == InputSampleRate(written, AlignSamplesToWrite,
                                   inp.sampleRateStart, inp.sampleRateEnd)
           outputOffset == Fraction(loc.count, inp.sampleRate)
           read == ReadInputSamples(loc, outputOffset, InputOffsetStep(rate))
       IN /\ out' = Append(out, InterpolatedSampleValue(read, outputOffset))
          /\ loc' = [ read EXCEPT !.numberOfSamplesWritten = @ + 1, !.count = @ + 1 ]
    /\ UNCHANGED <<op, pc, inp, res>>

\* The end of a second of output: inputOffset -= 1 and the progress callback
AlignWriteSecond ==
    /\ op = "alignWrite" /\ pc = "second"
    /\ loc.count > 0
    /\ ~(loc.count < inp.sampleRate /\ loc.numberOfSamplesWritten < AlignSamplesToWrite)
    /\ loc' = [ loc EXCEPT !.inputOffset = FractionSubtract(@, Fraction(1, 1)),
                           !.count = 0,
                           !.progress = Max(@, RoundDiv(100 * loc.numberOfSamplesWritten,
                                                        AlignSamplesToWrite)) ]
    /\ UNCHANGED <<op, pc, inp, out, res>>

\* All the samples are written: the last progress callback and the return
AlignWriteReturn ==
    /\ op = "alignWrite" /\ pc = "second"
    /\ loc.count = 0
    /\ ~(loc.numberOfSamplesWritten < AlignSamplesToWrite)
    /\ loc' = [ loc EXCEPT !.progress = 100 ]
    /\ pc' = "done"
    /\ res' = Success
    /\ UNCHANGED <<op, inp, out>>

NextAlignWrite ==
    \/ AlignWriteFirst
    \/ AlignWriteDrop
    \/ AlignWriteAdd
    \/ AlignWriteCorrected
    \/ AlignWriteSample
    \/ AlignWriteSecond
    \/ AlignWriteReturn

SpecAlignWrite == InitAlignWrite /\ [][NextAlignWrite]_vars

(***************************************************************************)
(* Claims about the sample rate and the time offset of align               *)
(***************************************************************************)
\* align has chosen the sample rates of the start and the end of a recording
RatesChosen == op = "align" /\ inp.call # Null /\ loc.rates # <<>>

\* The larger distance, in mHz, of the chosen rates from the sample rate of
\* the WAV file
ChosenRateError ==
    Max(Abs(loc.rates[1] - inp.call[1].sampleRate * MILLIHERTZ_IN_HERTZ),
        Abs(loc.rates[2] - inp.call[1].sampleRate * MILLIHERTZ_IN_HERTZ))

SampleRateMismatch == "Sample rate does not match expected sample rate."

\* C23 as stated: align returns the failure of the sample rate whenever a
\* chosen rate is more than 100 mHz from the rate of the WAV file.
C23_FailsOverHundredMillihertz ==
    (RatesChosen /\ ChosenRateError > 100) => res = SampleRateMismatch

\* C23 amended: align returns the failure of the sample rate exactly when a
\* chosen rate is more than 100 Hz (100 000 mHz) from the rate of the WAV
\* file.
C23_FailsOverHundredHertz ==
    RatesChosen => (res = SampleRateMismatch <=> ChosenRateError > 100 * 1000)

\* A recording of 47 kHz against fixes of 48 kHz is refused
C23_Witness ==
    /\ RatesChosen
    /\ ChosenRateError > 100 * 1000
    /\ res = SampleRateMismatch
    /\ loc.initialised

\* The samples are written and the file has samples left after those that
\* the time offset stands for
AlignWritten(n) ==
    /\ op = "alignWrite"
    /\ pc = "done"
    /\ n < Len(inp.samples)

\* N of the claim: round(|timeOffset| / 10 / 1000 * sample rate in Hz)
OffsetInSamples == RoundDiv(Abs(inp.timeOffset) * inp.sampleRate, 10 * 1000)

\* C24: when timeOffset < 0 align drops exactly N leading input samples and
\* the first output sample is input sample N; when timeOffset > 0 align
\* writes exactly N copies of the first sample before the output derived
\* from input sample 0.
C24_OffsetDropsOrPadsN ==
    AlignWritten(OffsetInSamples) =>
        /\ inp.timeOffset < 0 =>
               /\ loc.dropped = OffsetInSamples
               /\ out[1] = inp.samples[OffsetInSamples + 1]
        /\ inp.timeOffset > 0 =>
               /\ loc.added = OffsetInSamples
               /\ \A k \in 1..(OffsetInSamples + 1) : out[k] = inp.samples[1]

(***************************************************************************)
(* Claims about the names of the output files                              *)
(***************************************************************************)
HasSyncPostfix(filename) == EndsWith(filename, SyncPostfix \o WavExtension)

\* split has gone through the checks of its arguments that come before the
\* check of the name of the input file
SplitNameChecked ==
    /\ op = "split"
    /\ DurationFailure(DurationOrDefault(inp.argument)) = "none"
    /\ (pc # "check" \/ res # "none")

\* C25 for split: an input file named with the postfix _SYNC is accepted
\* and every output file name carries the postfix.
C25_SplitKeepsSyncPostfix ==
    (SplitNameChecked /\ HasSyncPostfix(inp.filename)) =>
        /\ res # "File name is incorrect."
        /\ \A k \in 1..Len(out) : HasSyncPostfix(out[k].filename)

\* downsample has gone through the checks of its arguments that come
\* before the check of the name of the input file
DownsampleNameChecked ==
    /\ op = "downsample"
    /\ pc # "check"
    /\ RequestedSampleRateCheck(inp.requestedSampleRate)

\* The same for downsample
DownsampleKeepsSyncPostfix ==
    (DownsampleNameChecked /\ HasSyncPostfix(inp.filename)) =>
        /\ res # "File name is not valid."
        /\ \A k \in 1..Len(out) : HasSyncPostfix(out[k].filename)

(***************************************************************************)
(* Claims about the intervals between PPS events                           *)
(***************************************************************************)

RECURSIVE TimeIntervalsBefore(_, _)
\* The sum of the timeIntervals of the intervals before the k-th
TimeIntervalsBefore(intervals, k) ==
    IF k <= 1 THEN 0
    ELSE TimeIntervalsBefore(intervals, k - 1) + intervals[k - 1].timeInterval

IntervalsWellFormed(intervals) ==
    /\ \A k \in 1..Len(intervals) :
          /\ intervals[k].timeInterval >= 1
          /\ intervals[k].startPPSIndex < intervals[k].endPPSIndex
          /\ intervals[k].cumulativeTimeInterval = TimeIntervalsBefore(intervals, k)
    /\ Len(intervals) > 0 => intervals[1].startPPSIndex = 0
    /\ \A k \in 2..Len(intervals) :
          intervals[k].startPPSIndex = intervals[k - 1].endPPSIndex

\* C26: the intervals accepted by sync have a timeInterval of at least 1 and
\* startPPSIndex < endPPSIndex, the first starts at row 0, each starts at the
\* row where the one before it ends, and cumulativeTimeInterval is the sum of
\* the timeIntervals of the intervals before it, with autoResolve or without.
C26_IntervalsWellFormed ==
    op = "sync" => IntervalsWellFormed(loc.intervals)

\* Two intervals or more, accepted with autoResolve after a row that failed
\* the check: the first one spans the failed row and more than one second
C26_Witness ==
    /\ op = "sync" /\ pc = "done" /\ res = "success"
    /\ inp.autoResolve
    /\ Len(loc.intervals) >= 2
    /\ loc.misalignedPPSEvent /\ loc.missedPPSEvent
    /\ loc.intervals[2].startPPSIndex > 1
    /\ loc.intervals[2].cumulativeTimeInterval > 1

(***************************************************************************)
(* Claims about GPS.CSV                                                    *)
(***************************************************************************)

\* finalise writes GPS.CSV after a successful initialise
FinaliseWrites == AlignFinalise /\ loc.initialised /\ res' = Success

\* The last fix among the rows before the k-th
FixRowBefore(rows, k) ==
    LET before == { j \in 1..(k - 1) : rows[j].event = FIX_IDENTIFIER }
    IN IF before = {} THEN 0 ELSE CHOOSE j \in before : \A i \in before : i <= j

GpsRowsInOrder(rows, fixes, recordings) ==
    /\ Len(rows) = Len(fixes) + Len(recordings)
    /\ \A i \in DOMAIN fixes : CountIn(rows, fixes[i]) = CountIn(fixes, fixes[i])
    /\ \A i \in DOMAIN recordings : CountIn(rows, recordings[i]) = CountIn(recordings, recordings[i])
    /\ \A k \in 1..(Len(rows) - 1) : rows[k].timestamp <= rows[k + 1].timestamp
    /\ \A k \in DOMAIN rows :
          rows[k].event = RECORD_IDENTIFIER =>
              LET j == FixRowBefore(rows, k)
              IN /\ j > 0
                 /\ rows[j].timestamp <= rows[k].timestamp
                 /\ \A i \in DOMAIN fixes :
                        fixes[i].timestamp <= rows[k].timestamp =>
                            fixes[i].timestamp <= rows[j].timestamp

C27_FinaliseStep ==
    FinaliseWrites => GpsRowsInOrder(out'.rows, loc.fixes, loc.recordings)

\* C27: after a successful initialise and any align calls, finalise writes
\* every committed fix once and every recording that align has accepted
\* once, the rows in non-decreasing order of UTC timestamp and each recording
\* after the latest fix that is not later than it.
C27_FinaliseWritesFixesAndRecordings == [][C27_FinaliseStep]_vars

\* GPS.CSV with two fixes, a recording between them and one after the last
C27_Witness ==
    /\ op = "align" /\ out.written /\ res = Success
    /\ Len(out.rows) = 4
    /\ out.rows[1].event = FIX_IDENTIFIER /\ out.rows[2].event = RECORD_IDENTIFIER
    /\ out.rows[3].event = FIX_IDENTIFIER /\ out.rows[4].event = RECORD_IDENTIFIER
    /\ loc.recordings = << out.rows[2], out.rows[4] >>
    /\ loc.used = <<>>

(***************************************************************************)
(* Claims about the data written by downsample                             *)
(***************************************************************************)

\* The main loop and the write after it are over
DownsampleWritten ==
    /\ op = "downsample" /\ pc \in {"guano", "done"}
    /\ Len(out) = 1

DownsampleBufferCapacity == DOWNSAMPLE_FILE_BUFFER_SIZE \div NUMBER_OF_BYTES_IN_SAMPLE

\* C28: downsample writes each of the numberOfSamplesToWrite output samples
\* to the file once and in order, so the data holds 2 x numberOfSamplesToWrite
\* bytes for every count, the multiples of the capacity of the output buffer
\* included.
C28_EverySampleWrittenOnce ==
    DownsampleWritten =>
        /\ Len(loc.samples) = loc.numberOfSamplesToWrite
        /\ out[1].data = BytesOfSamples(loc.samples)
        /\ Len(out[1].data) = NUMBER_OF_BYTES_IN_SAMPLE * loc.numberOfSamplesToWrite

\* Four samples written, twice the capacity of the output buffer, at a ratio
\* of rates that is no whole number
C28_Witness ==
    /\ DownsampleWritten /\ pc = "done"
    /\ loc.numberOfSamplesToWrite = 2 * DownsampleBufferCapacity
    /\ loc.stepDenominator > 1
    /\ \E k \in 1..3 : loc.samples[k] # loc.samples[k + 1]

(***************************************************************************)
(* Claims about the fixes of initialise                                    *)
(***************************************************************************)

\* The step commits a fix
FixCommitted == Len(loc'.fixes) > Len(loc.fixes)

C29_CommitStep ==
    FixCommitted =>
        loc'.fixes[Len(loc'.fixes)].timestamp = loc.received[1] + ALIGN_MILLISECONDS_IN_SECOND

\* C29: every fix that initialise commits has a timestamp exactly 1000 ms
\* after the time reported in its GPS-fix line, whatever the lines of
\* GPS.TXT, several time outcome lines in successive seconds included.
C29_FixOneSecondAfterLine == [][C29_CommitStep]_vars

\* initialise returns with success at the end of GPS.TXT
InitialiseSucceeds == op = "align" /\ pc = "lines" /\ pc' = "idle" /\ res' = Success

C30_ReturnStep ==
    InitialiseSucceeds =>
        /\ loc'.fixes = SortByTimestamp(loc.fresh.fixes)
        /\ loc'.medianSampleRate = MedianSampleRate(loc.fresh.fixes)

\* C30: the fixes and the median sample rate that initialise produces
\* depend only on the GPS.TXT file of that call: they are those of a module
\* that has processed no other file, whatever earlier initialise calls have
\* processed.
C30_FixesDependOnFileOnly == [][C30_ReturnStep]_vars

====
